---- MODULE Spec2Model ----
(***************************************************************************)
(* Taximeter simulator: fare accrual engine (src/lib/fare.ts), GPS noise   *)
(* filter and drive session state machine (App.tsx).                       *)
(*                                                                         *)
(* Numbers.  The program computes with JavaScript numbers.  The model      *)
(* keeps every quantity exact by using integers in a fixed unit:           *)
(*   distances  (…Km fields, deltaKm)        in metres      (1 km = 1000)  *)
(*   durations  (…Seconds fields)            in milliseconds (1 s = 1000)  *)
(*   timestamps (…Ms fields)                 in milliseconds               *)
(*   fares                                   in yen                        *)
(*   speeds     (km/h)  as a fraction num/den of integers                  *)
(* A number that a function receives from outside is a record              *)
(* [kind, val]: kind "finite" carries the value, the other kinds are the   *)
(* non-finite IEEE values NaN, Infinity and -Infinity.                     *)
(* The rounding of IEEE doubles is not represented: sums, differences and  *)
(* quotients are the exact ones.                                           *)
(***************************************************************************)
EXTENDS Integers, Sequences, FiniteSets, TLC

VARIABLES
  \* ---- harness of formatDuration of geo.ts (FormatSpec) ----
  formatCall,    \* the argument of the last call, or NoCall
  formatted,     \* the text the last call returned
  \* ---- harness of the loaders of history.ts (LoadSpec) ----
  storedFiles,   \* the contents of the history and the snapshot file
  loaded,        \* what the last load returned, or NoCall
  \* ---- harness of the pure fare engine (FareSpec) ----
  preset,        \* the FarePreset every call of the sequence uses
  runtime,       \* the FareRuntime after the calls so far
  before,        \* the FareRuntime the last call received
  call,          \* the arguments of the last call, or NoCall
  calls,         \* number of calls made so far
  negativeDistanceSeen,  \* some call so far passed a deltaDistanceKm < 0
  \* ---- harness of the pure sample classifier (NoiseSpec) ----
  noiseCall,     \* the arguments of the last getNoisySampleReason call
  noiseReason,   \* what that call returned
  \* ---- the app (Spec): clock, React state, refs and files ----
  now,                       \* Date.now()
  ticks,                     \* how often time has advanced
  launches,                  \* how often the process has been started again
  delivered,                 \* position samples delivered so far
  started,                   \* sessions started so far
  permission,                \* 'unknown' | 'granted' | 'denied'
  sessionState,              \* 'idle' | 'running' | 'paused'
  selectedPresetId,
  startedAtMs,               \* 0 stands for null (the code tests truthiness)
  elapsedMs,
  distanceKm,
  speedKmh,                  \* a speed fraction or Null
  fareYen,
  billingMode,               \* 'distance' | 'time' | 'unknown'
  acceptedSamples,
  filteredSamples,
  historyItems,
  restorableSnapshot,        \* a snapshot or Null
  errorMessage,              \* "" stands for null
  watchSub,                  \* Null, or the subscription and the preset its
                             \* callback closed over
  lastPoint,                 \* a LatLng or Null
  lastSampleTimeMs,          \* 0 stands for null
  timerRef,                  \* TRUE while the 250 ms interval is set
  fareRuntimeRef,
  elapsedAccumulatedMsRef,
  runningSegmentStartMsRef,  \* 0 stands for null
  firstAcceptedPointRef,
  lastAcceptedPointRef,
  sessionEventsRef,
  pauseLogsRef,
  pauseStartedAtRef,         \* 0 stands for null
  historyFile,               \* drive-history-v1.json, parsed
  snapshotFile,              \* session-snapshot-v1.json, parsed; EmptyFile
                             \* after clearSessionSnapshot
  pending,                   \* the handlers that wait at an await, each with
                             \* the values its closure holds
  leakedSubs,                \* location subscriptions that still deliver
                             \* although watchSub.current no longer refers
                             \* to them
  writesFail                 \* FileSystem.writeAsStringAsync rejects

fareVars == <<preset, runtime, before, call, calls, negativeDistanceSeen>>

noiseVars == <<noiseCall, noiseReason>>

reactVars ==
  <<permission, sessionState, selectedPresetId, startedAtMs, elapsedMs,
    distanceKm, speedKmh, fareYen, billingMode, acceptedSamples,
    filteredSamples, historyItems, restorableSnapshot, errorMessage>>

refVars ==
  <<watchSub, lastPoint, lastSampleTimeMs, timerRef, fareRuntimeRef,
    elapsedAccumulatedMsRef, runningSegmentStartMsRef, firstAcceptedPointRef,
    lastAcceptedPointRef, sessionEventsRef, pauseLogsRef, pauseStartedAtRef>>

fileVars == <<historyFile, snapshotFile>>

envVars == <<now, ticks, launches, delivered, started>>

asyncVars == <<pending, leakedSubs>>

storageVars == <<writesFail>>

appVars == <<envVars, reactVars, refVars, fileVars, asyncVars, storageVars>>

loadVars == <<storedFiles, loaded>>

formatVars == <<formatCall, formatted>>

harnessVars == <<fareVars, noiseVars, loadVars, formatVars>>
vars == <<harnessVars, appVars>>

(***************************************************************************)
(* JavaScript numbers                                                      *)
(***************************************************************************)
Fin(n) == [kind |-> "finite", val |-> n]
NaN == [kind |-> "NaN"]
PosInfinity == [kind |-> "Infinity"]
NegInfinity == [kind |-> "-Infinity"]
Rat(n, d) == [kind |-> "finite", num |-> n, den |-> d]

IsFinite(x) == x.kind = "finite"

\* speedKmh <= k for a speed fraction; every comparison with NaN is false
SpeedLE(speed, k) ==
  CASE speed.kind = "finite" -> speed.num <= k * speed.den
    [] speed.kind = "-Infinity" -> TRUE
    [] OTHER -> FALSE

\* speedKmh > k for a speed fraction; every comparison with NaN is false
SpeedGT(speed, k) ==
  CASE speed.kind = "finite" -> speed.num > k * speed.den
    [] speed.kind = "Infinity" -> TRUE
    [] OTHER -> FALSE

Min(a, b) == IF a <= b THEN a ELSE b
Max(a, b) == IF a >= b THEN a ELSE b

(***************************************************************************)
(* Fare presets                                                            *)
(***************************************************************************)
FARE_PRESETS ==
  << [id |-> "tokyo",
      baseFareYen |-> 500,
      baseDistanceKm |-> 1000,
      distanceStepKm |-> 255,
      distanceStepFareYen |-> 100,
      lowSpeedThresholdKmh |-> 10,
      lowSpeedStepSeconds |-> 90000,
      lowSpeedStepFareYen |-> 100],
     [id |-> "osaka",
      baseFareYen |-> 600,
      baseDistanceKm |-> 1300,
      distanceStepKm |-> 260,
      distanceStepFareYen |-> 100,
      lowSpeedThresholdKmh |-> 10,
      lowSpeedStepSeconds |-> 95000,
      lowSpeedStepFareYen |-> 100] >>

DEFAULT_FARE_PRESET == FARE_PRESETS[1]

PresetIds == {FARE_PRESETS[i].id : i \in DOMAIN FARE_PRESETS}

getPresetById(id) ==
  IF \E i \in DOMAIN FARE_PRESETS : FARE_PRESETS[i].id = id
  THEN FARE_PRESETS[CHOOSE i \in DOMAIN FARE_PRESETS :
                      /\ FARE_PRESETS[i].id = id
                      /\ \A j \in DOMAIN FARE_PRESETS :
                           FARE_PRESETS[j].id = id => i <= j]
  ELSE DEFAULT_FARE_PRESET

(***************************************************************************)
(* Fare engine                                                             *)
(***************************************************************************)
createFareRuntime_ZeroFare(p) ==
  [baseDistanceRemainingKm |-> p.baseDistanceKm,
   distanceRemainderKm |-> 0,
   lowSpeedRemainderSeconds |-> 0,
   fareYen |-> 0]

createFareRuntime(p) ==
  [baseDistanceRemainingKm |-> p.baseDistanceKm,
   distanceRemainderKm |-> 0,
   lowSpeedRemainderSeconds |-> 0,
   fareYen |-> p.baseFareYen]

\* chargeLowSpeed charging at most one step per call
chargeLowSpeed_OneStep(p, rt, seconds) ==
  LET remainder == rt.lowSpeedRemainderSeconds + seconds
  IN  IF remainder >= p.lowSpeedStepSeconds
      THEN [rt EXCEPT
              !.lowSpeedRemainderSeconds = remainder - p.lowSpeedStepSeconds,
              !.fareYen = @ + p.lowSpeedStepFareYen]
      ELSE [rt EXCEPT !.lowSpeedRemainderSeconds = remainder]

\* chargeLowSpeed consuming the free base distance as well
chargeLowSpeed_ConsumesBase(p, rt, seconds) ==
  LET remainder == rt.lowSpeedRemainderSeconds + seconds
      timeSteps == remainder \div p.lowSpeedStepSeconds
  IN  [rt EXCEPT
         !.baseDistanceRemainingKm = IF @ > 0 THEN @ - 1 ELSE @,
         !.lowSpeedRemainderSeconds =
             remainder - timeSteps * p.lowSpeedStepSeconds,
         !.fareYen = @ + timeSteps * p.lowSpeedStepFareYen]

\* chargeLowSpeed setting the fare to the charge of this segment instead of
\* adding the charge to it
chargeLowSpeed_AssignsFare(p, rt, seconds) ==
  LET remainder == rt.lowSpeedRemainderSeconds + seconds
      timeSteps == remainder \div p.lowSpeedStepSeconds
  IN  IF timeSteps > 0
      THEN [rt EXCEPT
              !.lowSpeedRemainderSeconds =
                  remainder - timeSteps * p.lowSpeedStepSeconds,
              !.fareYen = timeSteps * p.lowSpeedStepFareYen]
      ELSE [rt EXCEPT !.lowSpeedRemainderSeconds = remainder]

\* the low-speed branch: the segment's seconds are added to the remainder
\* and every whole step in it is charged at once
chargeLowSpeed(p, rt, seconds) ==
  LET remainder == rt.lowSpeedRemainderSeconds + seconds
      timeSteps == remainder \div p.lowSpeedStepSeconds
  IN  IF timeSteps > 0
      THEN [rt EXCEPT
              !.lowSpeedRemainderSeconds =
                  remainder - timeSteps * p.lowSpeedStepSeconds,
              !.fareYen = @ + timeSteps * p.lowSpeedStepFareYen]
      ELSE [rt EXCEPT !.lowSpeedRemainderSeconds = remainder]

\* chargeDistance charging the whole segment, the free base distance included
chargeDistance_NoFreeBase(p, rt, km) ==
  LET remainder == rt.distanceRemainderKm + km
      distanceSteps == remainder \div p.distanceStepKm
  IN  IF km > 0
      THEN [rt EXCEPT
              !.baseDistanceRemainingKm = IF @ > km THEN @ - km ELSE 0,
              !.distanceRemainderKm =
                  remainder - distanceSteps * p.distanceStepKm,
              !.fareYen = @ + distanceSteps * p.distanceStepFareYen]
      ELSE rt

\* chargeDistance charging at most one step per call
chargeDistance_OneStep(p, rt, km) ==
  LET consumed == IF rt.baseDistanceRemainingKm > 0
                  THEN Min(rt.baseDistanceRemainingKm, km)
                  ELSE 0
      afterBase == [rt EXCEPT !.baseDistanceRemainingKm = @ - consumed]
      chargeableDistance == km - consumed
      remainder == rt.distanceRemainderKm + chargeableDistance
  IN  IF chargeableDistance > 0
      THEN IF remainder >= p.distanceStepKm
           THEN [afterBase EXCEPT
                   !.distanceRemainderKm = remainder - p.distanceStepKm,
                   !.fareYen = @ + p.distanceStepFareYen]
           ELSE [afterBase EXCEPT !.distanceRemainderKm = remainder]
      ELSE afterBase

\* the distance branch: the free base distance is consumed first, what is
\* left over goes to the remainder and every whole step in it is charged
chargeDistance(p, rt, km) ==
  LET consumed == IF rt.baseDistanceRemainingKm > 0
                  THEN Min(rt.baseDistanceRemainingKm, km)
                  ELSE 0
      afterBase == [rt EXCEPT !.baseDistanceRemainingKm = @ - consumed]
      chargeableDistance == km - consumed
      remainder == rt.distanceRemainderKm + chargeableDistance
      distanceSteps == remainder \div p.distanceStepKm
  IN  IF chargeableDistance > 0
      THEN IF distanceSteps > 0
           THEN [afterBase EXCEPT
                   !.distanceRemainderKm =
                       remainder - distanceSteps * p.distanceStepKm,
                   !.fareYen = @ + distanceSteps * p.distanceStepFareYen]
           ELSE [afterBase EXCEPT !.distanceRemainderKm = remainder]
      ELSE afterBase

\* updateFareBySegment accepting a segment of zero seconds
updateFareBySegment_ZeroSeconds(p, rt, deltaDistanceKm, deltaSeconds, speed) ==
  IF \/ ~IsFinite(deltaDistanceKm)
     \/ ~IsFinite(deltaSeconds)
     \/ deltaSeconds.val < 0
  THEN rt
  ELSE IF SpeedLE(speed, p.lowSpeedThresholdKmh)
       THEN chargeLowSpeed(p, rt, deltaSeconds.val)
       ELSE chargeDistance(p, rt, deltaDistanceKm.val)

updateFareBySegment(p, rt, deltaDistanceKm, deltaSeconds, speed) ==
  IF \/ ~IsFinite(deltaDistanceKm)
     \/ ~IsFinite(deltaSeconds)
     \/ deltaSeconds.val <= 0
  THEN rt
  ELSE IF SpeedLE(speed, p.lowSpeedThresholdKmh)
       THEN chargeLowSpeed(p, rt, deltaSeconds.val)
       ELSE chargeDistance(p, rt, deltaDistanceKm.val)

(***************************************************************************)
(* Sample classifier (noise filter)                                        *)
(***************************************************************************)
MAX_REASONABLE_SPEED_KMH == 180

POOR_ACCURACY_METERS == 80

\* (MAX_REASONABLE_SPEED_KMH / 3600) * 1.5 km per second, in metres per second
MAX_DISTANCE_FACTOR_KM_PER_SEC ==
  (MAX_REASONABLE_SPEED_KMH * 1000 * 15) \div (3600 * 10)

Null == [kind |-> "null"]

\* deltaKm > MAX_DISTANCE_FACTOR_KM_PER_SEC * deltaSeconds + 0.02, with
\* deltaKm in metres and deltaSeconds in milliseconds, both sides times 1000
OverDistanceCap(deltaKm, deltaSeconds) ==
  deltaKm * 1000 > MAX_DISTANCE_FACTOR_KM_PER_SEC * deltaSeconds + 20 * 1000

\* getNoisySampleReason with the speed and accuracy limits inclusive
getNoisySampleReason_Inclusive(deltaKm, deltaSeconds, speed, accuracyMeters) ==
  IF \/ ~IsFinite(deltaKm)
     \/ ~IsFinite(deltaSeconds)
     \/ deltaSeconds.val <= 0
  THEN "invalid_delta"
  ELSE IF speed.kind = "finite"
          /\ speed.num >= MAX_REASONABLE_SPEED_KMH * speed.den
  THEN "speed_spike"
  ELSE IF OverDistanceCap(deltaKm.val, deltaSeconds.val)
  THEN "distance_jump"
  ELSE IF /\ accuracyMeters # Null
          /\ accuracyMeters.val >= POOR_ACCURACY_METERS
          /\ deltaKm.val > 30
  THEN "poor_accuracy_jump"
  ELSE "null"

\* getNoisySampleReason testing the accuracy rule before the distance cap
getNoisySampleReason_Reordered(deltaKm, deltaSeconds, speed, accuracyMeters) ==
  IF \/ ~IsFinite(deltaKm)
     \/ ~IsFinite(deltaSeconds)
     \/ deltaSeconds.val <= 0
  THEN "invalid_delta"
  ELSE IF SpeedGT(speed, MAX_REASONABLE_SPEED_KMH)
  THEN "speed_spike"
  ELSE IF /\ accuracyMeters # Null
          /\ accuracyMeters.val > POOR_ACCURACY_METERS
          /\ deltaKm.val > 30
  THEN "poor_accuracy_jump"
  ELSE IF OverDistanceCap(deltaKm.val, deltaSeconds.val)
  THEN "distance_jump"
  ELSE "null"

\* the reason a sample is noise, or "null" when it is accepted
getNoisySampleReason(deltaKm, deltaSeconds, speed, accuracyMeters) ==
  IF \/ ~IsFinite(deltaKm)
     \/ ~IsFinite(deltaSeconds)
     \/ deltaSeconds.val <= 0
  THEN "invalid_delta"
  ELSE IF SpeedGT(speed, MAX_REASONABLE_SPEED_KMH)
  THEN "speed_spike"
  ELSE IF OverDistanceCap(deltaKm.val, deltaSeconds.val)
  THEN "distance_jump"
  ELSE IF /\ accuracyMeters # Null
          /\ accuracyMeters.val > POOR_ACCURACY_METERS
          /\ deltaKm.val > 30
  THEN "poor_accuracy_jump"
  ELSE "null"

(***************************************************************************)
(* The app: session state machine, location watch, persistence             *)
(***************************************************************************)
EmptyFile == [kind |-> "empty"]

Undefined == [kind |-> "undefined"]

MAX_HISTORY_ITEMS == 100

\* a point of the meridian of longitude 0, its latitude in metres of arc
LatLng(lat) == [latitude |-> lat, longitude |-> 0]

Abs(x) == IF x < 0 THEN -x ELSE x

\* the great-circle distance of two points of one meridian is the arc
\* between their latitudes
distanceKmBetween(a, b) == Abs(b.latitude - a.latitude)

Take(seq, n) == SubSeq(seq, 1, Min(n, Len(seq)))

selectedPreset == getPresetById(selectedPresetId)

\* the values resetMeter(p) gives the session's state and refs
resetMeter(p) ==
  [startedAtMs |-> 0,
   elapsedMs |-> 0,
   distanceKm |-> 0,
   speedKmh |-> Null,
   fareYen |-> p.baseFareYen,
   billingMode |-> "unknown",
   acceptedSamples |-> 0,
   filteredSamples |-> 0,
   fareRuntimeRef |-> createFareRuntime(p),
   elapsedAccumulatedMsRef |-> 0,
   runningSegmentStartMsRef |-> 0,
   firstAcceptedPointRef |-> Null,
   lastAcceptedPointRef |-> Null,
   sessionEventsRef |-> <<>>,
   pauseLogsRef |-> <<>>,
   pauseStartedAtRef |-> 0,
   lastPoint |-> Null,
   lastSampleTimeMs |-> 0]

\* elapsedAccumulatedMsRef after finalizeRunningSegment(nowMs)
\* a finalizeRunningSegment that measures from the start of the session
finalizeRunningSegment_FromSessionStart(nowMs) ==
  IF runningSegmentStartMsRef = 0
  THEN elapsedAccumulatedMsRef
  ELSE elapsedAccumulatedMsRef + Max(0, nowMs - startedAtMs)

finalizeRunningSegment(nowMs) ==
  IF runningSegmentStartMsRef = 0
  THEN elapsedAccumulatedMsRef
  ELSE elapsedAccumulatedMsRef + Max(0, nowMs - runningSegmentStartMsRef)

addSessionEvent(events, type, atMs) ==
  Append(events, [type |-> type, atMs |-> atMs])

\* pauseLogsRef after the open pause interval, if any, is closed at atMs
closePauseInterval(atMs) ==
  IF pauseStartedAtRef # 0
  THEN Append(pauseLogsRef,
              [pausedAtMs |-> pauseStartedAtRef,
               resumedAtMs |-> atMs,
               durationMs |-> atMs - pauseStartedAtRef])
  ELSE pauseLogsRef

\* a snapshot that leaves the fare runtime out
buildSessionSnapshot_FreshRuntime ==
  [savedAtMs |-> now',
   sessionState |-> IF sessionState' = "running" THEN "running" ELSE "paused",
   startedAtMs |-> startedAtMs',
   elapsedMs |-> elapsedAccumulatedMsRef',
   distanceKm |-> distanceKm',
   fareYen |-> fareYen',
   billingMode |-> billingMode',
   selectedPresetId |-> selectedPresetId',
   acceptedSamples |-> acceptedSamples',
   filteredSamples |-> filteredSamples',
   fareRuntime |-> createFareRuntime(getPresetById(selectedPresetId')),
   from |-> firstAcceptedPointRef',
   to |-> lastAcceptedPointRef',
   pauseLogs |-> pauseLogsRef',
   events |-> sessionEventsRef']

\* the snapshot buildSessionSnapshot makes of the state after the step
buildSessionSnapshot ==
  [savedAtMs |-> now',
   sessionState |-> IF sessionState' = "running" THEN "running" ELSE "paused",
   startedAtMs |-> startedAtMs',
   elapsedMs |-> elapsedAccumulatedMsRef',
   distanceKm |-> distanceKm',
   fareYen |-> fareYen',
   billingMode |-> billingMode',
   selectedPresetId |-> selectedPresetId',
   acceptedSamples |-> acceptedSamples',
   filteredSamples |-> filteredSamples',
   fareRuntime |-> fareRuntimeRef',
   from |-> firstAcceptedPointRef',
   to |-> lastAcceptedPointRef',
   pauseLogs |-> pauseLogsRef',
   events |-> sessionEventsRef']

\* the values the persistence effect depends on
effectDeps ==
  <<sessionState, startedAtMs, elapsedMs, distanceKm, fareYen, billingMode,
    selectedPresetId, acceptedSamples, filteredSamples>>

\* the effect that follows every render in which a dependency changed: the
\* snapshot file is cleared while idle and rewritten from the state otherwise
\* a write that is rejected leaves the file as it is; the effect calls its
\* writes with void, so the rejection reaches nothing else
PersistEffect ==
  snapshotFile' =
    IF effectDeps' = effectDeps THEN snapshotFile
    ELSE IF writesFail THEN snapshotFile
    ELSE IF sessionState' = "idle" THEN EmptyFile
    ELSE IF startedAtMs' = 0 THEN snapshotFile
    ELSE buildSessionSnapshot

(***************************************************************************)
(* Files and JSON.  A file is missing, or holds a text that JSON.parse     *)
(* rejects ("" as clearSessionSnapshot writes it, or any other such text), *)
(* or holds the JSON text of a value.                                      *)
(***************************************************************************)
MissingFile == [kind |-> "missing"]

TextFile(t) == [kind |-> "text", text |-> t]

JsonFile(v) == [kind |-> "json", value |-> v]

JsonNull == [type |-> "null"]

JsonBoolean(b) == [type |-> "boolean", value |-> b]

JsonNumber(n) == [type |-> "number", value |-> n]

JsonString(t) == [type |-> "string", value |-> t]

JsonArray(items) == [type |-> "array", items |-> items]

JsonObject(fields) == [type |-> "object", fields |-> fields]

\* JavaScript's typeof v
TypeOf(v) ==
  IF v.type \in {"null", "array", "object"} THEN "object" ELSE v.type

\* JavaScript's !v
Falsy(v) ==
  \/ v.type = "null"
  \/ v.type = "boolean" /\ ~v.value
  \/ v.type = "number" /\ v.value = 0
  \/ v.type = "string" /\ v.value = ""

\* loadDriveHistory on the file given: <<>> for a missing file, for a text
\* JSON.parse throws on (caught) and for a value that is not an array
LoadHistory(file) ==
  IF file.kind = "missing" THEN <<>>
  ELSE IF file.kind # "json" THEN <<>>
  ELSE IF file.value.type # "array" THEN <<>>
  ELSE file.value.items

\* loadSessionSnapshot on the file given: Null, or the value parsed
LoadSnapshot(file) ==
  IF file.kind = "missing" THEN Null
  ELSE IF file.kind # "json" THEN Null
  ELSE IF Falsy(file.value) \/ TypeOf(file.value) # "object" THEN Null
  ELSE file.value

\* the app's files hold what the app wrote: historyFile the array of the
\* history file, snapshotFile the object of the snapshot file or EmptyFile
loadDriveHistory == LoadHistory(JsonFile(JsonArray(historyFile)))

loadSessionSnapshot ==
  LET parsed == LoadSnapshot(IF snapshotFile = EmptyFile THEN TextFile("")
                             ELSE JsonFile(JsonObject(snapshotFile)))
  IN  IF parsed = Null THEN Null ELSE parsed.fields

\* an append that puts the new item last
appendDriveHistory_AtEnd(item) ==
  Take(loadDriveHistory \o <<item>>, MAX_HISTORY_ITEMS)

appendDriveHistory(item) == Take(<<item>> \o loadDriveHistory, MAX_HISTORY_ITEMS)

(***************************************************************************)
(* Bounds of the app's environment                                         *)
(***************************************************************************)
MaxTicks == 2
MaxSamples == 2
MaxPauses == 2
MaxFinishAttempts == 2
MaxSessions == 1
MaxRelaunches == 1

TickMs == {5000, 95000}

Positions == {0, 40, 2000}

\* coords.speed in metres per second, or Null
SpeedReports == {Null, Fin(-1), Fin(0), Fin(2)}

\* coords.accuracy in metres, or Null
AccuracyReports == {Null, Fin(100)}

\* the subscription watchPositionAsync returns to startLocationWatch when
\* called by the handler op; its callback closes over the preset given
Subscription(p, op) == [preset |-> p, op |-> op]

\* the location subscriptions that deliver samples: the one watchSub.current
\* refers to and those that were never removed
LiveSubs == (IF watchSub = Null THEN {} ELSE {watchSub}) \cup leakedSubs

PauseCount ==
  Cardinality({i \in DOMAIN sessionEventsRef : sessionEventsRef[i].type = "pause"})

\* the session of a freshly mounted component, whatever the history on file
SessionInit ==
  /\ now = 1000
  /\ ticks = 0
  /\ launches = 0
  /\ delivered = 0
  /\ started = 0
  /\ permission = "unknown"
  /\ sessionState = "idle"
  /\ selectedPresetId = DEFAULT_FARE_PRESET.id
  /\ startedAtMs = 0
  /\ elapsedMs = 0
  /\ distanceKm = 0
  /\ speedKmh = Null
  /\ fareYen = DEFAULT_FARE_PRESET.baseFareYen
  /\ billingMode = "unknown"
  /\ acceptedSamples = 0
  /\ filteredSamples = 0
  /\ restorableSnapshot = Null
  /\ errorMessage = ""
  /\ watchSub = Null
  /\ lastPoint = Null
  /\ lastSampleTimeMs = 0
  /\ timerRef = FALSE
  /\ fareRuntimeRef = createFareRuntime(DEFAULT_FARE_PRESET)
  /\ elapsedAccumulatedMsRef = 0
  /\ runningSegmentStartMsRef = 0
  /\ firstAcceptedPointRef = Null
  /\ lastAcceptedPointRef = Null
  /\ sessionEventsRef = <<>>
  /\ pauseLogsRef = <<>>
  /\ pauseStartedAtRef = 0
  /\ snapshotFile = EmptyFile
  /\ pending = <<>>
  /\ leakedSubs = {}
  /\ writesFail = FALSE

AppInit ==
  /\ SessionInit
  /\ historyItems = <<>>
  /\ historyFile = <<>>

\* time passes
Tick ==
  /\ ticks < MaxTicks
  /\ \E dt \in TickMs : now' = now + dt
  /\ ticks' = ticks + 1
  /\ UNCHANGED <<launches, delivered, started, reactVars, refVars, fileVars>>
  /\ UNCHANGED <<asyncVars, harnessVars, storageVars>>

\* the preset buttons, enabled while idle; handlePresetChange itself
\* returns at once unless canChangePreset (line 444)
handlePresetChange ==
  /\ sessionState = "idle"
  /\ \E nextPresetId \in PresetIds :
       LET r == resetMeter(getPresetById(nextPresetId))
       IN  /\ selectedPresetId' = nextPresetId
           /\ startedAtMs' = r.startedAtMs
           /\ elapsedMs' = r.elapsedMs
           /\ distanceKm' = r.distanceKm
           /\ speedKmh' = r.speedKmh
           /\ fareYen' = r.fareYen
           /\ billingMode' = r.billingMode
           /\ acceptedSamples' = r.acceptedSamples
           /\ filteredSamples' = r.filteredSamples
           /\ fareRuntimeRef' = r.fareRuntimeRef
           /\ elapsedAccumulatedMsRef' = r.elapsedAccumulatedMsRef
           /\ runningSegmentStartMsRef' = r.runningSegmentStartMsRef
           /\ firstAcceptedPointRef' = r.firstAcceptedPointRef
           /\ lastAcceptedPointRef' = r.lastAcceptedPointRef
           /\ sessionEventsRef' = r.sessionEventsRef
           /\ pauseLogsRef' = r.pauseLogsRef
           /\ pauseStartedAtRef' = r.pauseStartedAtRef
           /\ lastPoint' = r.lastPoint
           /\ lastSampleTimeMs' = r.lastSampleTimeMs
  /\ UNCHANGED <<envVars, permission, sessionState, historyItems,
                 restorableSnapshot, errorMessage, watchSub, timerRef,
                 historyFile>>
  /\ PersistEffect
  /\ UNCHANGED <<asyncVars, harnessVars, storageVars>>

\* startSession, whatever the state it is called in
startSession_handler ==
  /\ \E granted \in BOOLEAN :
       IF ~granted
       THEN /\ permission' = "denied"
            /\ errorMessage' = "location permission required"
            /\ UNCHANGED <<started, sessionState, selectedPresetId,
                           startedAtMs, elapsedMs, distanceKm, speedKmh,
                           fareYen, billingMode, acceptedSamples,
                           filteredSamples, refVars>>
       ELSE LET r == resetMeter(selectedPreset)
                start == now
            IN  /\ permission' = "granted"
                /\ errorMessage' = ""
                /\ started' = started + 1
                /\ startedAtMs' = start
                /\ elapsedMs' = r.elapsedMs
                /\ distanceKm' = r.distanceKm
                /\ speedKmh' = r.speedKmh
                /\ fareYen' = r.fareYen
                /\ billingMode' = r.billingMode
                /\ acceptedSamples' = r.acceptedSamples
                /\ filteredSamples' = r.filteredSamples
                /\ fareRuntimeRef' = r.fareRuntimeRef
                /\ elapsedAccumulatedMsRef' = 0
                /\ runningSegmentStartMsRef' = start
                /\ firstAcceptedPointRef' = r.firstAcceptedPointRef
                /\ lastAcceptedPointRef' = r.lastAcceptedPointRef
                /\ sessionEventsRef' =
                     addSessionEvent(r.sessionEventsRef, "start", start)
                /\ pauseLogsRef' = r.pauseLogsRef
                /\ pauseStartedAtRef' = r.pauseStartedAtRef
                /\ lastPoint' = r.lastPoint
                /\ lastSampleTimeMs' = r.lastSampleTimeMs
                /\ sessionState' = "running"
                /\ timerRef' = TRUE
                /\ watchSub' = Subscription(selectedPreset, "start")
                /\ UNCHANGED selectedPresetId
  /\ UNCHANGED <<now, ticks, launches, delivered, historyItems,
                 restorableSnapshot, historyFile>>
  /\ PersistEffect
  /\ UNCHANGED <<asyncVars, harnessVars, storageVars>>

\* the start button, enabled while idle unless permission was denied
startSession ==
  /\ sessionState = "idle"
  /\ permission # "denied"
  /\ started < MaxSessions
  /\ startSession_handler

\* a timer callback that shows the open segment alone
elapsedTimer_SegmentOnly ==
  /\ timerRef
  /\ runningSegmentStartMsRef # 0
  /\ elapsedMs' = now - runningSegmentStartMsRef
  /\ UNCHANGED <<envVars, permission, sessionState, selectedPresetId,
                 startedAtMs, distanceKm, speedKmh, fareYen, billingMode,
                 acceptedSamples, filteredSamples, historyItems,
                 restorableSnapshot, errorMessage, refVars, historyFile>>
  /\ PersistEffect
  /\ UNCHANGED <<asyncVars, harnessVars, storageVars>>

\* the 250 ms interval set by startElapsedTimer
elapsedTimer ==
  /\ timerRef
  /\ runningSegmentStartMsRef # 0
  /\ elapsedMs' = elapsedAccumulatedMsRef + (now - runningSegmentStartMsRef)
  /\ UNCHANGED <<envVars, permission, sessionState, selectedPresetId,
                 startedAtMs, distanceKm, speedKmh, fareYen, billingMode,
                 acceptedSamples, filteredSamples, historyItems,
                 restorableSnapshot, errorMessage, refVars, historyFile>>
  /\ PersistEffect
  /\ UNCHANGED <<asyncVars, harnessVars, storageVars>>

\* the callback of the location watch, for one position sample
\* the mutant of the billing mode shown: the two modes are swapped
billingModeOf_Swapped(speed, p) ==
  IF SpeedLE(speed, p.lowSpeedThresholdKmh) THEN "distance" ELSE "time"

\* currentSpeedKmh <= selectedPreset.lowSpeedThresholdKmh ? 'time' : 'distance'
billingModeOf(speed, p) ==
  IF SpeedLE(speed, p.lowSpeedThresholdKmh) THEN "time" ELSE "distance"

\* the mutant of the count of rejected samples: the sample is not counted
countFiltered_NotCounted(prev) == prev

\* setFilteredSamples((prev) => prev + 1)
countFiltered(prev) == prev + 1

\* the mutant of the choice of the speed: a reported speed of zero is taken
currentSpeedKmhOf_ZeroTaken(mps, deltaKm, deltaSeconds) ==
  IF mps # Null /\ mps.val >= 0 THEN Rat(mps.val * 36, 10)
  ELSE Rat(deltaKm * 3600, deltaSeconds)

\* rawSpeedKmh > 0 ? rawSpeedKmh : fallbackSpeedKmh
currentSpeedKmhOf(mps, deltaKm, deltaSeconds) ==
  LET rawSpeedKmh ==
        IF mps = Null THEN Rat(0, 1) ELSE Rat(mps.val * 36, 10)
      fallbackSpeedKmh ==
        IF deltaSeconds > 0
        THEN Rat(deltaKm * 3600, deltaSeconds)
        ELSE Rat(0, 1)
  IN  IF SpeedGT(rawSpeedKmh, 0) THEN rawSpeedKmh ELSE fallbackSpeedKmh

\* the callback of subscription sub on a location of the latitude, speed,
\* accuracy and timestamp given
locationCallback(sub, lat, mps, accuracy, timestamp) ==
  /\ delivered < MaxSamples
  /\ delivered' = delivered + 1
  /\ LET nextPoint == LatLng(lat)
       IN  /\ lastPoint' = nextPoint
           /\ lastSampleTimeMs' = timestamp
           /\ IF lastPoint # Null /\ lastSampleTimeMs # 0
              THEN
                LET deltaKm == distanceKmBetween(lastPoint, nextPoint)
                    deltaSeconds == Max(100, timestamp - lastSampleTimeMs)
                    currentSpeedKmh ==
                      currentSpeedKmhOf(mps, deltaKm, deltaSeconds)
                    noisySampleReason ==
                      getNoisySampleReason(Fin(deltaKm), Fin(deltaSeconds),
                                           currentSpeedKmh, accuracy)
                    nextRuntime ==
                      updateFareBySegment(sub.preset, fareRuntimeRef,
                                          Fin(Max(0, deltaKm)),
                                          Fin(deltaSeconds), currentSpeedKmh)
                IN  IF noisySampleReason # "null"
                    THEN /\ filteredSamples' = countFiltered(filteredSamples)
                         /\ speedKmh' = Null
                         /\ billingMode' = "unknown"
                         /\ UNCHANGED <<acceptedSamples, distanceKm, fareYen,
                                        fareRuntimeRef, firstAcceptedPointRef,
                                        lastAcceptedPointRef>>
                    ELSE /\ acceptedSamples' = acceptedSamples + 1
                         /\ firstAcceptedPointRef' =
                              IF firstAcceptedPointRef = Null THEN nextPoint
                              ELSE firstAcceptedPointRef
                         /\ lastAcceptedPointRef' = nextPoint
                         /\ distanceKm' =
                              IF deltaKm > 0 THEN distanceKm + deltaKm
                              ELSE distanceKm
                         /\ fareRuntimeRef' = nextRuntime
                         /\ fareYen' = nextRuntime.fareYen
                         /\ speedKmh' = currentSpeedKmh
                         /\ billingMode' =
                              billingModeOf(currentSpeedKmh, sub.preset)
                         /\ UNCHANGED filteredSamples
              ELSE UNCHANGED <<acceptedSamples, filteredSamples, distanceKm,
                               fareYen, speedKmh, billingMode, fareRuntimeRef,
                               firstAcceptedPointRef, lastAcceptedPointRef>>
  /\ UNCHANGED <<now, ticks, launches, started, permission, sessionState,
                 selectedPresetId, startedAtMs, elapsedMs, historyItems,
                 restorableSnapshot, errorMessage, watchSub, timerRef,
                 elapsedAccumulatedMsRef, runningSegmentStartMsRef,
                 sessionEventsRef, pauseLogsRef, pauseStartedAtRef,
                 historyFile>>
  /\ PersistEffect
  /\ UNCHANGED <<asyncVars, harnessVars, storageVars>>

\* a location arrives on a live subscription
locationSample ==
  \E sub \in LiveSubs, lat \in Positions, mps \in SpeedReports,
     accuracy \in AccuracyReports, timestamp \in {now} :
    locationCallback(sub, lat, mps, accuracy, timestamp)

\* enterPausedState, whatever the state it is called in
enterPausedState_handler ==
  /\ elapsedAccumulatedMsRef' = finalizeRunningSegment(now)
  /\ runningSegmentStartMsRef' = 0
  /\ elapsedMs' = IF runningSegmentStartMsRef = 0 THEN elapsedMs
                  ELSE finalizeRunningSegment(now)
  /\ watchSub' = Null
  /\ timerRef' = FALSE
  /\ speedKmh' = Null
  /\ pauseStartedAtRef' = now
  /\ sessionEventsRef' = addSessionEvent(sessionEventsRef, "pause", now)
  /\ sessionState' = "paused"
  /\ UNCHANGED <<envVars, permission, selectedPresetId, startedAtMs,
                 distanceKm, fareYen, billingMode, acceptedSamples,
                 filteredSamples, historyItems, restorableSnapshot,
                 errorMessage, lastPoint, lastSampleTimeMs, fareRuntimeRef,
                 firstAcceptedPointRef, lastAcceptedPointRef, pauseLogsRef,
                 historyFile>>
  /\ PersistEffect
  /\ UNCHANGED <<asyncVars, harnessVars, storageVars>>

\* the pause button, shown while running
enterPausedState ==
  /\ sessionState = "running"
  /\ PauseCount < MaxPauses
  /\ enterPausedState_handler

\* the mutant of the reset of resumeSession: the last point and time stay
baselineOnResume_Kept == [point |-> lastPoint, timeMs |-> lastSampleTimeMs]

\* lastPoint.current = null; lastSampleTimeMs.current = null
baselineOnResume == [point |-> Null, timeMs |-> 0]

\* the resume button, shown while paused
resumeSession ==
  /\ sessionState = "paused"
  /\ pauseLogsRef' = closePauseInterval(now)
  /\ pauseStartedAtRef' = 0
  /\ sessionEventsRef' = addSessionEvent(sessionEventsRef, "resume", now)
  /\ runningSegmentStartMsRef' = now
  /\ lastPoint' = baselineOnResume.point
  /\ lastSampleTimeMs' = baselineOnResume.timeMs
  /\ sessionState' = "running"
  /\ timerRef' = TRUE
  /\ watchSub' = Subscription(selectedPreset, "resume")
  /\ UNCHANGED <<envVars, permission, selectedPresetId, startedAtMs,
                 elapsedMs, distanceKm, speedKmh, fareYen, billingMode,
                 acceptedSamples, filteredSamples, historyItems,
                 restorableSnapshot, errorMessage, fareRuntimeRef,
                 elapsedAccumulatedMsRef, firstAcceptedPointRef,
                 lastAcceptedPointRef, historyFile>>
  /\ PersistEffect
  /\ UNCHANGED <<asyncVars, harnessVars, storageVars>>

\* a record built before the finish event is added
finishRecord_WithoutFinishEvent(finishedAtMs) ==
  [id |-> <<startedAtMs, finishedAtMs>>,
   createdAtMs |-> finishedAtMs,
   startedAtMs |-> startedAtMs,
   finishedAtMs |-> finishedAtMs,
   elapsedMs |-> elapsedAccumulatedMsRef,
   distanceKm |-> distanceKm,
   fareYen |-> fareYen,
   presetId |-> selectedPreset.id,
   from |-> firstAcceptedPointRef,
   to |-> lastAcceptedPointRef,
   acceptedSamples |-> acceptedSamples,
   filteredSamples |-> filteredSamples,
   distanceChargeSteps |-> Undefined,
   timeChargeSteps |-> Undefined,
   pauseLogs |-> closePauseInterval(finishedAtMs),
   events |-> sessionEventsRef]

\* the history record finishSession builds when it is called at finishedAtMs
finishRecord(finishedAtMs) ==
  [id |-> <<startedAtMs, finishedAtMs>>,
   createdAtMs |-> finishedAtMs,
   startedAtMs |-> startedAtMs,
   finishedAtMs |-> finishedAtMs,
   elapsedMs |-> elapsedAccumulatedMsRef,
   distanceKm |-> distanceKm,
   fareYen |-> fareYen,
   presetId |-> selectedPreset.id,
   from |-> firstAcceptedPointRef,
   to |-> lastAcceptedPointRef,
   acceptedSamples |-> acceptedSamples,
   filteredSamples |-> filteredSamples,
   distanceChargeSteps |-> Undefined,
   timeChargeSteps |-> Undefined,
   pauseLogs |-> closePauseInterval(finishedAtMs),
   events |-> addSessionEvent(sessionEventsRef, "finish", finishedAtMs)]

\* finishSession when its writes succeed
finishSession_completed ==
  /\ LET finishedAtMs == now
         record == finishRecord(finishedAtMs)
         r == resetMeter(selectedPreset)
     IN  /\ IF startedAtMs # 0
            THEN /\ historyFile' = appendDriveHistory(record)
                 /\ historyItems' =
                      Take(<<record>> \o historyItems, MAX_HISTORY_ITEMS)
            ELSE UNCHANGED <<historyFile, historyItems>>
         /\ watchSub' = Null
         /\ timerRef' = FALSE
         /\ startedAtMs' = r.startedAtMs
         /\ elapsedMs' = r.elapsedMs
         /\ distanceKm' = r.distanceKm
         /\ speedKmh' = r.speedKmh
         /\ fareYen' = r.fareYen
         /\ billingMode' = r.billingMode
         /\ acceptedSamples' = r.acceptedSamples
         /\ filteredSamples' = r.filteredSamples
         /\ fareRuntimeRef' = r.fareRuntimeRef
         /\ elapsedAccumulatedMsRef' = r.elapsedAccumulatedMsRef
         /\ runningSegmentStartMsRef' = r.runningSegmentStartMsRef
         /\ firstAcceptedPointRef' = r.firstAcceptedPointRef
         /\ lastAcceptedPointRef' = r.lastAcceptedPointRef
         /\ sessionEventsRef' = r.sessionEventsRef
         /\ pauseLogsRef' = r.pauseLogsRef
         /\ pauseStartedAtRef' = r.pauseStartedAtRef
         /\ lastPoint' = r.lastPoint
         /\ lastSampleTimeMs' = r.lastSampleTimeMs
         /\ sessionState' = "idle"
  /\ snapshotFile' = EmptyFile
  /\ UNCHANGED <<envVars, permission, selectedPresetId, restorableSnapshot,
                 errorMessage>>
  /\ UNCHANGED <<asyncVars, harnessVars, storageVars>>

\* finishSession when the write it awaits is rejected (appendDriveHistory
\* at line 388, or clearSessionSnapshot at line 392 for a session that never
\* started): the rejection ends the handler there
finishSession_rejected ==
  /\ pauseLogsRef' = closePauseInterval(now)
  /\ pauseStartedAtRef' = 0
  /\ sessionEventsRef' = addSessionEvent(sessionEventsRef, "finish", now)
  /\ UNCHANGED <<envVars, reactVars, watchSub, lastPoint, lastSampleTimeMs,
                 timerRef, fareRuntimeRef, elapsedAccumulatedMsRef,
                 runningSegmentStartMsRef, firstAcceptedPointRef,
                 lastAcceptedPointRef, fileVars>>
  /\ UNCHANGED <<asyncVars, harnessVars, storageVars>>

\* finishSession, whatever the state it is called in
finishSession_handler ==
  IF writesFail THEN finishSession_rejected ELSE finishSession_completed

\* finish events recorded so far
FinishCount ==
  Cardinality({i \in DOMAIN sessionEventsRef :
                 sessionEventsRef[i].type = "finish"})

\* the finish button, shown while paused
finishSession ==
  /\ sessionState = "paused"
  /\ FinishCount < MaxFinishAttempts
  /\ finishSession_handler

\* the process ends and the app is started again: the component mounts with
\* its initial state, loads the history and the snapshot, and its idle
\* effect clears the snapshot file; the load reads the snapshot file before
\* or after that clear
relaunch ==
  /\ launches < MaxRelaunches
  /\ launches' = launches + 1
  /\ \E loadBeforeClear \in BOOLEAN :
       restorableSnapshot' =
         IF loadBeforeClear \/ writesFail THEN loadSessionSnapshot ELSE Null
  /\ historyItems' = loadDriveHistory
  /\ snapshotFile' = IF writesFail THEN snapshotFile ELSE EmptyFile
  /\ permission' = "unknown"
  /\ sessionState' = "idle"
  /\ selectedPresetId' = DEFAULT_FARE_PRESET.id
  /\ startedAtMs' = 0
  /\ elapsedMs' = 0
  /\ distanceKm' = 0
  /\ speedKmh' = Null
  /\ fareYen' = DEFAULT_FARE_PRESET.baseFareYen
  /\ billingMode' = "unknown"
  /\ acceptedSamples' = 0
  /\ filteredSamples' = 0
  /\ errorMessage' = ""
  /\ watchSub' = Null
  /\ lastPoint' = Null
  /\ lastSampleTimeMs' = 0
  /\ timerRef' = FALSE
  /\ fareRuntimeRef' = createFareRuntime(DEFAULT_FARE_PRESET)
  /\ elapsedAccumulatedMsRef' = 0
  /\ runningSegmentStartMsRef' = 0
  /\ firstAcceptedPointRef' = Null
  /\ lastAcceptedPointRef' = Null
  /\ sessionEventsRef' = <<>>
  /\ pauseLogsRef' = <<>>
  /\ pauseStartedAtRef' = 0
  /\ pending' = <<>>
  /\ leakedSubs' = {}
  /\ UNCHANGED <<now, ticks, delivered, started, historyFile>>
  /\ UNCHANGED <<harnessVars, storageVars>>

\* restoreFromSnapshot, whatever the state it is called in; it returns at
\* once when there is no restorable snapshot
restoreFromSnapshot_handler ==
  /\ restorableSnapshot # Null
  /\ \E granted \in BOOLEAN :
       IF ~granted
       THEN /\ permission' = "denied"
            /\ errorMessage' = "location permission required"
            /\ UNCHANGED <<sessionState, selectedPresetId, startedAtMs,
                           elapsedMs, distanceKm, speedKmh, fareYen,
                           billingMode, acceptedSamples, filteredSamples,
                           restorableSnapshot, refVars>>
       ELSE /\ permission' = "granted"
            /\ selectedPresetId' = restorableSnapshot.selectedPresetId
            /\ startedAtMs' = restorableSnapshot.startedAtMs
            /\ elapsedMs' = restorableSnapshot.elapsedMs
            /\ distanceKm' = restorableSnapshot.distanceKm
            /\ fareYen' = restorableSnapshot.fareYen
            /\ billingMode' = restorableSnapshot.billingMode
            /\ acceptedSamples' = restorableSnapshot.acceptedSamples
            /\ filteredSamples' = restorableSnapshot.filteredSamples
            /\ speedKmh' = Null
            /\ fareRuntimeRef' = restorableSnapshot.fareRuntime
            /\ elapsedAccumulatedMsRef' = restorableSnapshot.elapsedMs
            /\ runningSegmentStartMsRef' = 0
            /\ firstAcceptedPointRef' = restorableSnapshot.from
            /\ lastAcceptedPointRef' = restorableSnapshot.to
            /\ pauseLogsRef' = restorableSnapshot.pauseLogs
            /\ sessionEventsRef' = restorableSnapshot.events
            /\ pauseStartedAtRef' = 0
            /\ lastPoint' = Null
            /\ lastSampleTimeMs' = 0
            /\ sessionState' = "paused"
            /\ restorableSnapshot' = Null
            /\ errorMessage' = "session restored"
            /\ UNCHANGED <<watchSub, timerRef>>
  /\ UNCHANGED <<envVars, historyItems, historyFile>>
  /\ PersistEffect
  /\ UNCHANGED <<asyncVars, harnessVars, storageVars>>

\* the restore button, shown while idle with a restorable snapshot
restoreFromSnapshot ==
  /\ sessionState = "idle"
  /\ restoreFromSnapshot_handler

\* the discard button, shown while idle with a restorable snapshot
discardRestorableSnapshot ==
  /\ sessionState = "idle"
  /\ restorableSnapshot # Null
  /\ restorableSnapshot' = Null
  /\ snapshotFile' = IF writesFail THEN snapshotFile ELSE EmptyFile
  /\ UNCHANGED <<envVars, permission, sessionState, selectedPresetId,
                 startedAtMs, elapsedMs, distanceKm, speedKmh, fareYen,
                 billingMode, acceptedSamples, filteredSamples, historyItems,
                 errorMessage, refVars, historyFile>>
  /\ UNCHANGED <<asyncVars, harnessVars, storageVars>>

(***************************************************************************)
(* The asynchronous handlers, step by step.  startSession, resumeSession,  *)
(* finishSession and restoreFromSnapshot are async functions: each runs    *)
(* to its next await, and what follows the await runs when the awaited     *)
(* promise settles, with the values its closure took from the render in    *)
(* which the button was pressed.  Other events can happen in between.      *)
(***************************************************************************)
MaxPending == 2
\* pauses of a run whose handlers are taken step by step
MaxAsyncPauses == 1

\* the pause button in such a run
enterPausedState_async ==
  /\ PauseCount < MaxAsyncPauses
  /\ enterPausedState

RemoveAt(seq, i) == SubSeq(seq, 1, i - 1) \o SubSeq(seq, i + 1, Len(seq))

\* startSession up to its first await, the permission request
startSession_invoked ==
  /\ sessionState = "idle"
  /\ permission # "denied"
  /\ started < MaxSessions
  /\ Len(pending) < MaxPending
  /\ started' = started + 1
  /\ errorMessage' = ""
  /\ pending' = Append(pending, [op |-> "start", await |-> "permission",
                                 preset |-> selectedPreset])
  /\ UNCHANGED <<now, ticks, launches, delivered, permission, sessionState,
                 selectedPresetId, startedAtMs, elapsedMs, distanceKm,
                 speedKmh, fareYen, billingMode, acceptedSamples,
                 filteredSamples, historyItems, restorableSnapshot, refVars,
                 fileVars, leakedSubs>>
  /\ UNCHANGED <<harnessVars, storageVars>>

\* startSession from the answer to the permission request to the await of
\* watchPositionAsync in startLocationWatch
startSession_permission ==
  \E i \in DOMAIN pending, granted \in BOOLEAN :
    /\ pending[i].op = "start"
    /\ pending[i].await = "permission"
    /\ IF ~granted
       THEN /\ permission' = "denied"
            /\ errorMessage' = "location permission required"
            /\ pending' = RemoveAt(pending, i)
            /\ UNCHANGED <<sessionState, selectedPresetId, startedAtMs,
                           elapsedMs, distanceKm, speedKmh, fareYen,
                           billingMode, acceptedSamples, filteredSamples,
                           refVars>>
       ELSE LET r == resetMeter(pending[i].preset)
                start == now
            IN  /\ permission' = "granted"
                /\ startedAtMs' = start
                /\ elapsedMs' = r.elapsedMs
                /\ distanceKm' = r.distanceKm
                /\ speedKmh' = r.speedKmh
                /\ fareYen' = r.fareYen
                /\ billingMode' = r.billingMode
                /\ acceptedSamples' = r.acceptedSamples
                /\ filteredSamples' = r.filteredSamples
                /\ fareRuntimeRef' = r.fareRuntimeRef
                /\ elapsedAccumulatedMsRef' = 0
                /\ runningSegmentStartMsRef' = start
                /\ firstAcceptedPointRef' = r.firstAcceptedPointRef
                /\ lastAcceptedPointRef' = r.lastAcceptedPointRef
                /\ sessionEventsRef' =
                     addSessionEvent(r.sessionEventsRef, "start", start)
                /\ pauseLogsRef' = r.pauseLogsRef
                /\ pauseStartedAtRef' = r.pauseStartedAtRef
                /\ lastPoint' = r.lastPoint
                /\ lastSampleTimeMs' = r.lastSampleTimeMs
                /\ sessionState' = "running"
                /\ timerRef' = TRUE
                /\ watchSub' = Null
                /\ pending' = [pending EXCEPT ![i].await = "watch"]
                /\ UNCHANGED <<selectedPresetId, errorMessage>>
    /\ UNCHANGED <<envVars, historyItems, restorableSnapshot, historyFile,
                   leakedSubs>>
    /\ PersistEffect
    /\ UNCHANGED <<harnessVars, storageVars>>

\* the React values a handler's closure holds, for the snapshot it builds
renderValues ==
  [startedAtMs |-> startedAtMs,
   distanceKm |-> distanceKm,
   fareYen |-> fareYen,
   billingMode |-> billingMode,
   selectedPresetId |-> selectedPresetId,
   acceptedSamples |-> acceptedSamples,
   filteredSamples |-> filteredSamples]

\* resumeSession up to the await of watchPositionAsync in startLocationWatch
resumeSession_invoked ==
  /\ sessionState = "paused"
  /\ Len(pending) < MaxPending
  /\ pauseLogsRef' = closePauseInterval(now)
  /\ pauseStartedAtRef' = 0
  /\ sessionEventsRef' = addSessionEvent(sessionEventsRef, "resume", now)
  /\ runningSegmentStartMsRef' = now
  /\ lastPoint' = baselineOnResume.point
  /\ lastSampleTimeMs' = baselineOnResume.timeMs
  /\ sessionState' = "running"
  /\ timerRef' = TRUE
  /\ watchSub' = Null
  /\ pending' = Append(pending, [op |-> "resume", await |-> "watch",
                                 preset |-> selectedPreset,
                                 render |-> renderValues])
  /\ UNCHANGED <<envVars, permission, selectedPresetId, startedAtMs,
                 elapsedMs, distanceKm, speedKmh, fareYen, billingMode,
                 acceptedSamples, filteredSamples, historyItems,
                 restorableSnapshot, errorMessage, fareRuntimeRef,
                 elapsedAccumulatedMsRef, firstAcceptedPointRef,
                 lastAcceptedPointRef, historyFile, leakedSubs>>
  /\ PersistEffect
  /\ UNCHANGED <<harnessVars, storageVars>>

\* the snapshot persistSessionSnapshot('running') builds at the end of a
\* handler: React values from the handler's closure, refs as they are now
closureSnapshot(render) ==
  [savedAtMs |-> now,
   sessionState |-> "running",
   startedAtMs |-> render.startedAtMs,
   elapsedMs |-> elapsedAccumulatedMsRef,
   distanceKm |-> render.distanceKm,
   fareYen |-> render.fareYen,
   billingMode |-> render.billingMode,
   selectedPresetId |-> render.selectedPresetId,
   acceptedSamples |-> render.acceptedSamples,
   filteredSamples |-> render.filteredSamples,
   fareRuntime |-> fareRuntimeRef,
   from |-> firstAcceptedPointRef,
   to |-> lastAcceptedPointRef,
   pauseLogs |-> pauseLogsRef,
   events |-> sessionEventsRef]

\* watchPositionAsync settles: startLocationWatch stores the subscription in
\* watchSub.current, and the handler that awaited it persists a snapshot
startLocationWatch_resolved ==
  \E i \in DOMAIN pending :
    /\ pending[i].await = "watch"
    /\ watchSub' = Subscription(pending[i].preset, pending[i].op)
    /\ leakedSubs' =
         IF watchSub = Null THEN leakedSubs ELSE leakedSubs \cup {watchSub}
    /\ snapshotFile' =
         IF pending[i].op = "resume"
         THEN closureSnapshot(pending[i].render)
         ELSE snapshotFile
    /\ pending' = RemoveAt(pending, i)
    /\ UNCHANGED <<envVars, reactVars, lastPoint, lastSampleTimeMs, timerRef,
                   fareRuntimeRef, elapsedAccumulatedMsRef,
                   runningSegmentStartMsRef, firstAcceptedPointRef,
                   lastAcceptedPointRef, sessionEventsRef, pauseLogsRef,
                   pauseStartedAtRef, historyFile>>
    /\ UNCHANGED <<harnessVars, storageVars>>

\* finishSession up to its first await: the open pause is closed, the
\* finish event and the record are made, appendDriveHistory is called
finishSession_invoked ==
  /\ sessionState = "paused"
  /\ Len(pending) < MaxPending
  /\ pauseLogsRef' = closePauseInterval(now)
  /\ pauseStartedAtRef' = 0
  /\ sessionEventsRef' = addSessionEvent(sessionEventsRef, "finish", now)
  /\ pending' = Append(pending,
                       [op |-> "finish",
                        await |-> IF startedAtMs # 0 THEN "append"
                                  ELSE "clear",
                        record |-> finishRecord(now),
                        current |-> <<>>,
                        preset |-> selectedPreset])
  /\ UNCHANGED <<envVars, reactVars, watchSub, lastPoint, lastSampleTimeMs,
                 timerRef, fareRuntimeRef, elapsedAccumulatedMsRef,
                 runningSegmentStartMsRef, firstAcceptedPointRef,
                 lastAcceptedPointRef, fileVars, leakedSubs>>
  /\ UNCHANGED <<harnessVars, storageVars>>

\* loadDriveHistory settles inside appendDriveHistory: the history read is
\* what the write that follows puts the record in front of
appendDriveHistory_loaded ==
  \E i \in DOMAIN pending :
    /\ pending[i].op = "finish"
    /\ pending[i].await = "append"
    /\ pending' = [pending EXCEPT ![i].await = "write",
                                  ![i].current = loadDriveHistory]
    /\ UNCHANGED <<envVars, reactVars, refVars, fileVars, leakedSubs>>
    /\ UNCHANGED <<harnessVars, storageVars>>

\* appendDriveHistory settles: the record is in the file, in front of the
\* history read before, and is put in front of historyItems;
\* clearSessionSnapshot is called
finishSession_appended ==
  \E i \in DOMAIN pending :
    /\ pending[i].op = "finish"
    /\ pending[i].await = "write"
    /\ historyFile' =
         Take(<<pending[i].record>> \o pending[i].current, MAX_HISTORY_ITEMS)
    /\ historyItems' =
         Take(<<pending[i].record>> \o historyItems, MAX_HISTORY_ITEMS)
    /\ pending' = [pending EXCEPT ![i].await = "clear"]
    /\ UNCHANGED <<envVars, permission, sessionState, selectedPresetId,
                   startedAtMs, elapsedMs, distanceKm, speedKmh, fareYen,
                   billingMode, acceptedSamples, filteredSamples,
                   restorableSnapshot, errorMessage, refVars, snapshotFile,
                   leakedSubs>>
    /\ UNCHANGED <<harnessVars, storageVars>>

\* clearSessionSnapshot settles: finishSession stops the watch and the
\* timer, resets the meter and sets the state to idle
finishSession_cleared ==
  \E i \in DOMAIN pending :
    /\ pending[i].op = "finish"
    /\ pending[i].await = "clear"
    /\ LET r == resetMeter(pending[i].preset)
       IN  /\ watchSub' = Null
           /\ timerRef' = FALSE
           /\ startedAtMs' = r.startedAtMs
           /\ elapsedMs' = r.elapsedMs
           /\ distanceKm' = r.distanceKm
           /\ speedKmh' = r.speedKmh
           /\ fareYen' = r.fareYen
           /\ billingMode' = r.billingMode
           /\ acceptedSamples' = r.acceptedSamples
           /\ filteredSamples' = r.filteredSamples
           /\ fareRuntimeRef' = r.fareRuntimeRef
           /\ elapsedAccumulatedMsRef' = r.elapsedAccumulatedMsRef
           /\ runningSegmentStartMsRef' = r.runningSegmentStartMsRef
           /\ firstAcceptedPointRef' = r.firstAcceptedPointRef
           /\ lastAcceptedPointRef' = r.lastAcceptedPointRef
           /\ sessionEventsRef' = r.sessionEventsRef
           /\ pauseLogsRef' = r.pauseLogsRef
           /\ pauseStartedAtRef' = r.pauseStartedAtRef
           /\ lastPoint' = r.lastPoint
           /\ lastSampleTimeMs' = r.lastSampleTimeMs
           /\ sessionState' = "idle"
    /\ snapshotFile' = EmptyFile
    /\ pending' = RemoveAt(pending, i)
    /\ UNCHANGED <<envVars, permission, selectedPresetId, historyItems,
                   restorableSnapshot, errorMessage, historyFile,
                   leakedSubs>>
    /\ UNCHANGED <<harnessVars, storageVars>>

\* restoreFromSnapshot up to its first await, the permission request
restoreFromSnapshot_invoked ==
  /\ sessionState = "idle"
  /\ restorableSnapshot # Null
  /\ Len(pending) < MaxPending
  /\ pending' = Append(pending, [op |-> "restore", await |-> "permission",
                                 snapshot |-> restorableSnapshot])
  /\ UNCHANGED <<envVars, reactVars, refVars, fileVars, leakedSubs>>
  /\ UNCHANGED <<harnessVars, storageVars>>

\* restoreFromSnapshot from the answer to the permission request on, with
\* the snapshot its closure holds
restoreFromSnapshot_permission ==
  \E i \in DOMAIN pending, granted \in BOOLEAN :
    /\ pending[i].op = "restore"
    /\ pending[i].await = "permission"
    /\ pending' = RemoveAt(pending, i)
    /\ IF ~granted
       THEN /\ permission' = "denied"
            /\ errorMessage' = "location permission required"
            /\ UNCHANGED <<sessionState, selectedPresetId, startedAtMs,
                           elapsedMs, distanceKm, speedKmh, fareYen,
                           billingMode, acceptedSamples, filteredSamples,
                           restorableSnapshot, refVars>>
       ELSE LET snapshot == pending[i].snapshot
            IN  /\ permission' = "granted"
                /\ selectedPresetId' = snapshot.selectedPresetId
                /\ startedAtMs' = snapshot.startedAtMs
                /\ elapsedMs' = snapshot.elapsedMs
                /\ distanceKm' = snapshot.distanceKm
                /\ fareYen' = snapshot.fareYen
                /\ billingMode' = snapshot.billingMode
                /\ acceptedSamples' = snapshot.acceptedSamples
                /\ filteredSamples' = snapshot.filteredSamples
                /\ speedKmh' = Null
                /\ fareRuntimeRef' = snapshot.fareRuntime
                /\ elapsedAccumulatedMsRef' = snapshot.elapsedMs
                /\ runningSegmentStartMsRef' = 0
                /\ firstAcceptedPointRef' = snapshot.from
                /\ lastAcceptedPointRef' = snapshot.to
                /\ pauseLogsRef' = snapshot.pauseLogs
                /\ sessionEventsRef' = snapshot.events
                /\ pauseStartedAtRef' = 0
                /\ lastPoint' = Null
                /\ lastSampleTimeMs' = 0
                /\ sessionState' = "paused"
                /\ restorableSnapshot' = Null
                /\ errorMessage' = "session restored"
                /\ UNCHANGED <<watchSub, timerRef>>
    /\ UNCHANGED <<envVars, historyItems, historyFile, leakedSubs>>
    /\ PersistEffect
    /\ UNCHANGED <<harnessVars, storageVars>>

(***************************************************************************)
(* FareSpec: every sequence of at most MaxCalls calls of                   *)
(* updateFareBySegment, with one preset, on the runtime made by            *)
(* createFareRuntime.  The arguments range over finite and non-finite      *)
(* numbers, valid and invalid durations, and speeds below, at and above    *)
(* the low-speed threshold.                                                *)
(***************************************************************************)
MaxCalls == 3

NoCall == [kind |-> "none"]

DeltaDistanceInputs ==
  {NaN, PosInfinity, Fin(-255), Fin(0), Fin(255), Fin(765), Fin(1765)}

DeltaSecondsInputs ==
  {NaN, Fin(-1000), Fin(0), Fin(5000), Fin(90000), Fin(95000), Fin(185000)}

SpeedInputs == {NaN, Rat(5, 1), Rat(10, 1), Rat(30, 1)}

FareInit ==
  /\ preset \in {FARE_PRESETS[i] : i \in DOMAIN FARE_PRESETS}
  /\ runtime = createFareRuntime(preset)
  /\ before = runtime
  /\ call = NoCall
  /\ calls = 0
  /\ negativeDistanceSeen = FALSE
  /\ noiseCall = NoCall
  /\ noiseReason = "none"
  /\ storedFiles = NoCall
  /\ loaded = NoCall
  /\ formatCall = NoCall
  /\ formatted = ""
  /\ AppInit

ApplySegment ==
  /\ calls < MaxCalls
  /\ \E d \in DeltaDistanceInputs, s \in DeltaSecondsInputs, v \in SpeedInputs :
       /\ call' = [kind |-> "segment", deltaDistanceKm |-> d,
                   deltaSeconds |-> s, speedKmh |-> v]
       /\ runtime' = updateFareBySegment(preset, runtime, d, s, v)
       /\ negativeDistanceSeen' =
            (negativeDistanceSeen \/ (IsFinite(d) /\ d.val < 0))
  /\ before' = runtime
  /\ calls' = calls + 1
  /\ UNCHANGED <<preset, noiseVars, loadVars, formatVars, appVars>>

FareNext == ApplySegment

FareSpec == FareInit /\ [][FareNext]_vars

(***************************************************************************)
(* The last call of the harness, classified as the engine classifies it    *)
(***************************************************************************)
IsSegmentCall == call.kind = "segment"

RejectedCall ==
  /\ IsSegmentCall
  /\ \/ ~IsFinite(call.deltaDistanceKm)
     \/ ~IsFinite(call.deltaSeconds)
     \/ call.deltaSeconds.val <= 0

ValidCall == IsSegmentCall /\ ~RejectedCall

LowSpeedCall ==
  ValidCall /\ SpeedLE(call.speedKmh, preset.lowSpeedThresholdKmh)

DistanceCall ==
  ValidCall /\ SpeedGT(call.speedKmh, preset.lowSpeedThresholdKmh)

TOKYO == FARE_PRESETS[1]

AllPresets == {FARE_PRESETS[i] : i \in DOMAIN FARE_PRESETS}

FloorDiv(a, b) == a \div b

\* C2: for every preset, createFareRuntime returns the preset's base
\* distance as baseDistanceRemainingKm, both remainders 0 and the preset's
\* base fare as fareYen; the runtime a call sequence starts from is that one.
C2_CreateRuntime ==
  /\ \A p \in AllPresets :
       /\ createFareRuntime(p).baseDistanceRemainingKm = p.baseDistanceKm
       /\ createFareRuntime(p).distanceRemainderKm = 0
       /\ createFareRuntime(p).lowSpeedRemainderSeconds = 0
       /\ createFareRuntime(p).fareYen = p.baseFareYen
  /\ calls = 0 =>
       /\ runtime.baseDistanceRemainingKm = preset.baseDistanceKm
       /\ runtime.distanceRemainderKm = 0
       /\ runtime.lowSpeedRemainderSeconds = 0
       /\ runtime.fareYen = preset.baseFareYen

C2_Witness ==
  /\ calls = 0
  /\ preset.id = "osaka"
  /\ runtime.fareYen = 600
  /\ runtime.baseDistanceRemainingKm = 1300

\* C3: a call whose deltaDistanceKm or deltaSeconds is non-finite, or whose
\* deltaSeconds is <= 0, returns the runtime it received, in all four
\* fields, whatever the speed and the preset.
C3_RejectedUnchanged ==
  RejectedCall =>
    /\ runtime.baseDistanceRemainingKm = before.baseDistanceRemainingKm
    /\ runtime.distanceRemainderKm = before.distanceRemainderKm
    /\ runtime.lowSpeedRemainderSeconds = before.lowSpeedRemainderSeconds
    /\ runtime.fareYen = before.fareYen

C3_Witness ==
  /\ RejectedCall
  /\ call.deltaSeconds = Fin(0)
  /\ call.deltaDistanceKm = Fin(1765)
  /\ call.speedKmh = Rat(30, 1)
  /\ before.fareYen > preset.baseFareYen
  /\ runtime = before

\* C4: a valid segment at a speed <= the low-speed threshold leaves the
\* remainder (r + deltaSeconds) mod lowSpeedStepSeconds and adds
\* floor((r + deltaSeconds) / lowSpeedStepSeconds) step fares; with step 90 s
\* and step fare 100, 185 s at 5 km/h in pieces charge 2 steps, remainder 5 s.
C4_LowSpeedCharging ==
  /\ LowSpeedCall =>
       LET total == before.lowSpeedRemainderSeconds + call.deltaSeconds.val
       IN  /\ runtime.lowSpeedRemainderSeconds =
                total % preset.lowSpeedStepSeconds
           /\ runtime.fareYen = before.fareYen
                + FloorDiv(total, preset.lowSpeedStepSeconds)
                    * preset.lowSpeedStepFareYen
  /\ LET r1 == updateFareBySegment(TOKYO, createFareRuntime(TOKYO),
                                    Fin(0), Fin(90000), Rat(5, 1))
         r2 == updateFareBySegment(TOKYO, r1, Fin(0), Fin(95000), Rat(5, 1))
     IN  /\ r2.fareYen = TOKYO.baseFareYen + 200
         /\ r2.lowSpeedRemainderSeconds = 5000

C4_Witness ==
  /\ LowSpeedCall
  /\ preset.id = "tokyo"
  /\ calls = 2
  /\ call.deltaSeconds = Fin(95000)
  /\ call.speedKmh = Rat(5, 1)
  /\ before.fareYen = 600
  /\ runtime.fareYen = 700
  /\ runtime.lowSpeedRemainderSeconds = 5000

C6_ModeExclusive ==
  LET timeChanged ==
        runtime.lowSpeedRemainderSeconds # before.lowSpeedRemainderSeconds
      distanceChanged ==
        \/ runtime.baseDistanceRemainingKm # before.baseDistanceRemainingKm
        \/ runtime.distanceRemainderKm # before.distanceRemainderKm
  IN  /\ (IsSegmentCall
           /\ SpeedGT(call.speedKmh, preset.lowSpeedThresholdKmh))
          => ~timeChanged
      /\ (IsSegmentCall
           /\ SpeedLE(call.speedKmh, preset.lowSpeedThresholdKmh))
          => ~distanceChanged
      /\ IsSegmentCall => ~(timeChanged /\ distanceChanged)

C6_Witness ==
  /\ LowSpeedCall
  /\ call.deltaDistanceKm = Fin(1765)
  /\ call.speedKmh = Rat(10, 1)
  /\ before.baseDistanceRemainingKm > 0
  /\ runtime.baseDistanceRemainingKm = before.baseDistanceRemainingKm
  /\ runtime.lowSpeedRemainderSeconds # before.lowSpeedRemainderSeconds

\* C7: starting from createFareRuntime(preset), after every call of every
\* sequence of calls with that preset, 0 <= distanceRemainderKm <
\* distanceStepKm and 0 <= lowSpeedRemainderSeconds < lowSpeedStepSeconds.
C7_RemaindersInRange ==
  /\ 0 <= runtime.distanceRemainderKm
  /\ runtime.distanceRemainderKm < preset.distanceStepKm
  /\ 0 <= runtime.lowSpeedRemainderSeconds
  /\ runtime.lowSpeedRemainderSeconds < preset.lowSpeedStepSeconds

C7_Witness ==
  /\ calls = MaxCalls
  /\ runtime.distanceRemainderKm > 0
  /\ runtime.lowSpeedRemainderSeconds > 0
  /\ runtime.fareYen >= preset.baseFareYen + 300

\* C8 as claimed: over every sequence of calls with finite deltaDistanceKm
\* and deltaSeconds > 0, baseDistanceRemainingKm never increases, never
\* exceeds the preset's base distance and never becomes negative.
C8_BaseNeverIncreases_AnyFiniteDistance ==
  ValidCall =>
    /\ runtime.baseDistanceRemainingKm <= before.baseDistanceRemainingKm
    /\ runtime.baseDistanceRemainingKm <= preset.baseDistanceKm
    /\ runtime.baseDistanceRemainingKm >= 0

\* C8 for a caller that passes no negative distance, as the location watch
\* does (it passes Math.max(0, deltaKm)): baseDistanceRemainingKm never
\* increases, never exceeds the preset's base distance and never becomes
\* negative.
C8_BaseNeverIncreases_NonNegativeDistance ==
  ~negativeDistanceSeen =>
    /\ runtime.baseDistanceRemainingKm <= before.baseDistanceRemainingKm
    /\ runtime.baseDistanceRemainingKm <= preset.baseDistanceKm
    /\ runtime.baseDistanceRemainingKm >= 0

C8_NonNegativeDistance_Witness ==
  /\ ~negativeDistanceSeen
  /\ calls = MaxCalls
  /\ DistanceCall
  /\ before.baseDistanceRemainingKm > 0
  /\ before.baseDistanceRemainingKm < preset.baseDistanceKm
  /\ call.deltaDistanceKm.val > before.baseDistanceRemainingKm
  /\ runtime.baseDistanceRemainingKm = 0

\* the sizes the batching claim splits a segment into
SecondsPieces == {100, 5000, 90000, 185000}

DistancePieces == {0, 5, 255, 1000, 1765}

NoiseDeltaKmInputs ==
  {NaN, PosInfinity, Fin(0), Fin(10), Fin(30), Fin(31), Fin(395), Fin(396),
   Fin(5000)}

NoiseDeltaSecondsInputs == {NaN, Fin(-1000), Fin(0), Fin(100), Fin(5000)}

NoiseSpeedInputs ==
  {NaN, Rat(72, 10), Rat(180, 1), Rat(1801, 10), Rat(200, 1)}

NoiseAccuracyInputs == {Null, Fin(20), Fin(80), Fin(81)}

Classify ==
  /\ \E dk \in NoiseDeltaKmInputs, ds \in NoiseDeltaSecondsInputs,
        v \in NoiseSpeedInputs, acc \in NoiseAccuracyInputs :
       /\ noiseCall' = [kind |-> "sample", deltaKm |-> dk, deltaSeconds |-> ds,
                        speedKmh |-> v, accuracyMeters |-> acc]
       /\ noiseReason' = getNoisySampleReason(dk, ds, v, acc)
  /\ UNCHANGED <<fareVars, loadVars, formatVars, appVars>>

NoiseNext == Classify

NoiseSpec == FareInit /\ [][NoiseNext]_vars

\* the rules of C10 in the claim's own units (km, s, km/h, m), on numbers
\* scaled to integers: deltaKm in metres, deltaSeconds in milliseconds
C10_Expected(c) ==
  IF \/ c.deltaKm.kind # "finite"
     \/ c.deltaSeconds.kind # "finite"
     \/ c.deltaSeconds.val <= 0
  THEN "invalid_delta"
  ELSE IF c.speedKmh.kind = "finite" /\ c.speedKmh.num > 180 * c.speedKmh.den
  THEN "speed_spike"
  ELSE IF 1000 * c.deltaKm.val > 75 * c.deltaSeconds.val + 20000
  THEN "distance_jump"
  ELSE IF /\ c.accuracyMeters.kind = "finite"
          /\ c.accuracyMeters.val > 80
          /\ c.deltaKm.val > 30
  THEN "poor_accuracy_jump"
  ELSE "null"

\* C10: getNoisySampleReason returns the first matching rule in the order
\* invalid_delta, speed_spike (> 180 km/h), distance_jump (deltaKm > 0.075 *
\* deltaSeconds + 0.02), poor_accuracy_jump (accuracy present and > 80 m and
\* deltaKm > 0.03), else accepted; a value exactly at a threshold and a
\* missing accuracy are not rejected by that rule; deltaSeconds = 0 gives
\* invalid_delta, 200 km/h gives speed_spike and (0.01 km, 5 s, 7.2 km/h,
\* 20 m) is accepted.
C10_NoisyReason ==
  /\ noiseCall.kind = "sample" => noiseReason = C10_Expected(noiseCall)
  /\ (noiseCall.kind = "sample" /\ noiseCall.deltaSeconds = Fin(0))
       => noiseReason = "invalid_delta"
  /\ (/\ noiseCall.kind = "sample"
      /\ noiseCall.deltaKm = Fin(10)
      /\ noiseCall.deltaSeconds = Fin(5000)
      /\ noiseCall.speedKmh = Rat(200, 1))
       => noiseReason = "speed_spike"
  /\ (/\ noiseCall.kind = "sample"
      /\ noiseCall.deltaKm = Fin(10)
      /\ noiseCall.deltaSeconds = Fin(5000)
      /\ noiseCall.speedKmh = Rat(72, 10)
      /\ noiseCall.accuracyMeters = Fin(20))
       => noiseReason = "null"
  /\ (/\ noiseCall.kind = "sample"
      /\ noiseCall.deltaKm = Fin(395)
      /\ noiseCall.deltaSeconds = Fin(5000)
      /\ noiseCall.speedKmh = Rat(180, 1)
      /\ noiseCall.accuracyMeters \in {Null, Fin(80)})
       => noiseReason = "null"
  /\ (/\ noiseCall.kind = "sample"
      /\ noiseCall.deltaKm = Fin(30)
      /\ noiseCall.deltaSeconds = Fin(5000)
      /\ noiseCall.speedKmh = Rat(180, 1)
      /\ noiseCall.accuracyMeters = Fin(81))
       => noiseReason = "null"

\* a sample that matches both the distance cap and the accuracy rule is
\* reported by the earlier rule
C10_Witness ==
  /\ noiseCall.kind = "sample"
  /\ noiseCall.deltaKm = Fin(396)
  /\ noiseCall.deltaSeconds = Fin(5000)
  /\ noiseCall.speedKmh = Rat(180, 1)
  /\ noiseCall.accuracyMeters = Fin(81)
  /\ noiseReason = "distance_jump"

(***************************************************************************)
(* Spec: the app driven by its user, its clock and its location feed       *)
(***************************************************************************)
(***************************************************************************)
(* LoadSpec: loadDriveHistory, loadSessionSnapshot and                     *)
(* clearSessionSnapshot on files of any content.                           *)
(***************************************************************************)
\* a record of the history and a snapshot, as far as their shape goes
SomeDriveHistoryItem == [id |-> 1, fareYen |-> 500]

SomeSessionSnapshot == [startedAtMs |-> 1000, sessionState |-> "paused"]

IsDriveHistoryItem(x) == "id" \in DOMAIN x

IsSessionSnapshot(x) == "startedAtMs" \in DOMAIN x

\* JSON values of every type, of the right and of the wrong shape
JsonValues ==
  { JsonNull, JsonBoolean(FALSE), JsonBoolean(TRUE), JsonNumber(0),
    JsonNumber(7), JsonString(""), JsonString("x"),
    JsonArray(<<>>), JsonArray(<<SomeDriveHistoryItem>>),
    JsonArray(<<JsonNumber(7)>>),
    JsonObject(SomeSessionSnapshot), JsonObject([foo |-> 1]) }

FileContents ==
  {MissingFile, TextFile(""), TextFile("{not json")}
    \cup {JsonFile(v) : v \in JsonValues}

LoadInit ==
  /\ preset = DEFAULT_FARE_PRESET
  /\ runtime = createFareRuntime(preset)
  /\ before = runtime
  /\ call = NoCall
  /\ calls = 0
  /\ negativeDistanceSeen = FALSE
  /\ noiseCall = NoCall
  /\ noiseReason = "none"
  /\ AppInit
  /\ storedFiles \in [history : FileContents, snapshot : FileContents]
  /\ loaded = NoCall
  /\ formatCall = NoCall
  /\ formatted = ""

loadDriveHistory_call ==
  /\ loaded' = [kind |-> "history", result |-> LoadHistory(storedFiles.history)]
  /\ UNCHANGED <<storedFiles, fareVars, noiseVars, formatVars, appVars>>

loadSessionSnapshot_call ==
  /\ loaded' = [kind |-> "snapshot",
                result |-> LoadSnapshot(storedFiles.snapshot)]
  /\ UNCHANGED <<storedFiles, fareVars, noiseVars, formatVars, appVars>>

clearSessionSnapshot_call ==
  /\ storedFiles' = [storedFiles EXCEPT !.snapshot = TextFile("")]
  /\ loaded' = [kind |-> "cleared"]
  /\ UNCHANGED <<fareVars, noiseVars, formatVars, appVars>>

LoadNext ==
  \/ loadDriveHistory_call
  \/ loadSessionSnapshot_call
  \/ clearSessionSnapshot_call

LoadSpec == LoadInit /\ [][LoadNext]_vars

(***************************************************************************)
(* geo.ts: formatDuration, computed on texts as the code computes it.      *)
(***************************************************************************)
Digit(d) ==
  CASE d = 0 -> "0" [] d = 1 -> "1" [] d = 2 -> "2" [] d = 3 -> "3"
    [] d = 4 -> "4" [] d = 5 -> "5" [] d = 6 -> "6" [] d = 7 -> "7"
    [] d = 8 -> "8" [] d = 9 -> "9"

\* Number.prototype.toString of a natural number
RECURSIVE NatToString(_)
NatToString(n) ==
  IF n < 10 THEN Digit(n) ELSE NatToString(n \div 10) \o Digit(n % 10)

\* the mutant of the padding: the text is left as it is
padStart_None(text, width, fill) == text

\* String.prototype.padStart with a fill of one character
RECURSIVE padStart(_, _, _)
padStart(text, width, fill) ==
  IF Len(text) >= width THEN text ELSE padStart(fill \o text, width, fill)

formatDuration(ms) ==
  LET totalSeconds == Max(0, ms \div 1000)
      h == padStart(NatToString(totalSeconds \div 3600), 2, "0")
      m == padStart(NatToString((totalSeconds % 3600) \div 60), 2, "0")
      s == padStart(NatToString(totalSeconds % 60), 2, "0")
  IN  h \o ":" \o m \o ":" \o s

(***************************************************************************)
(* FormatSpec: formatDuration on durations around every boundary of a      *)
(* field, negative ones and ones of a hundred hours included.              *)
(***************************************************************************)
DurationInputs ==
  {-3661000, -1000, -5, -1}
    \cup { hh * 3600000 + mm * 60000 + ss * 1000 + ms :
             hh \in {0, 1, 9, 10, 99, 100}, mm \in {0, 1, 10, 59},
             ss \in {0, 1, 59}, ms \in {0, 999} }

FormatInit ==
  /\ preset = DEFAULT_FARE_PRESET
  /\ runtime = createFareRuntime(preset)
  /\ before = runtime
  /\ call = NoCall
  /\ calls = 0
  /\ negativeDistanceSeen = FALSE
  /\ noiseCall = NoCall
  /\ noiseReason = "none"
  /\ storedFiles = NoCall
  /\ loaded = NoCall
  /\ AppInit
  /\ formatCall = NoCall
  /\ formatted = ""

formatDuration_call ==
  \E ms \in DurationInputs :
    /\ formatCall' = [kind |-> "formatDuration", ms |-> ms]
    /\ formatted' = formatDuration(ms)
    /\ UNCHANGED <<fareVars, noiseVars, loadVars, appVars>>

FormatNext == formatDuration_call

FormatSpec == FormatInit /\ [][FormatNext]_vars

(***************************************************************************)
(* HistorySpec: a sequence of appendDriveHistory calls, each followed by   *)
(* the update of the list on screen as finishSession makes it, on a        *)
(* history file left by earlier runs.                                      *)
(***************************************************************************)
MaxAppends == 3

\* lengths of the history on file at the start
StoredLengths == {0, 1, 98, 99, 100, 101}

\* a history of n records, the newest first
StoredHistory(n) == [i \in 1..n |-> [id |-> n - i + 1, fareYen |-> 500]]

\* the records appended: the k-th has id 1000 + k
AppendedFares == {500, 600, 700}

HistoryInit ==
  /\ preset = DEFAULT_FARE_PRESET
  /\ runtime = createFareRuntime(preset)
  /\ before = runtime
  /\ call = NoCall
  /\ calls = 0
  /\ negativeDistanceSeen = FALSE
  /\ noiseCall = NoCall
  /\ noiseReason = "none"
  /\ storedFiles = NoCall
  /\ loaded = NoCall
  /\ formatCall = NoCall
  /\ formatted = ""
  /\ SessionInit
  /\ \E n \in StoredLengths : historyFile = StoredHistory(n)
  /\ historyItems = loadDriveHistory

\* appendDriveHistory(record) and the setHistoryItems that follows it
AppendRecord ==
  /\ calls < MaxAppends
  /\ \E f \in AppendedFares :
       LET record == [id |-> 1000 + calls + 1, fareYen |-> f]
       IN  /\ call' = [kind |-> "append", item |-> record]
           /\ historyFile' = appendDriveHistory(record)
           /\ historyItems' =
                Take(<<record>> \o historyItems, MAX_HISTORY_ITEMS)
  /\ calls' = calls + 1
  /\ UNCHANGED <<preset, runtime, before, negativeDistanceSeen, noiseVars,
                 loadVars, formatVars,
                 envVars, permission, sessionState, selectedPresetId,
                 startedAtMs, elapsedMs, distanceKm, speedKmh, fareYen,
                 billingMode, acceptedSamples, filteredSamples,
                 restorableSnapshot, errorMessage, refVars, snapshotFile,
                 asyncVars, storageVars>>

HistoryNext == AppendRecord

HistorySpec == HistoryInit /\ [][HistoryNext]_vars

Init ==
  /\ FareInit
  /\ preset = DEFAULT_FARE_PRESET

Next ==
  \/ Tick
  \/ handlePresetChange
  \/ startSession
  \/ elapsedTimer
  \/ locationSample
  \/ enterPausedState
  \/ resumeSession
  \/ finishSession
  \/ relaunch
  \/ restoreFromSnapshot
  \/ discardRestorableSnapshot

Spec == Init /\ [][Next]_vars

(***************************************************************************)
(* IoFailSpec: the same app on a storage that, from some moment on,        *)
(* rejects every write (saveSessionSnapshot, appendDriveHistory and        *)
(* clearSessionSnapshot all end in FileSystem.writeAsStringAsync).  The    *)
(* events of a run fall within one reading of the clock.                   *)
(***************************************************************************)
storageBreaks ==
  /\ ~writesFail
  /\ writesFail' = TRUE
  /\ UNCHANGED <<envVars, reactVars, refVars, fileVars, asyncVars,
                 harnessVars>>

IoFailNext ==
  \/ storageBreaks
  \/ handlePresetChange
  \/ startSession
  \/ locationSample
  \/ enterPausedState
  \/ resumeSession
  \/ finishSession
  \/ relaunch
  \/ restoreFromSnapshot
  \/ discardRestorableSnapshot

IoFailSpec == Init /\ [][IoFailNext]_vars

(***************************************************************************)
(* AsyncSpec: the same app with its asynchronous handlers taken step by    *)
(* step, so that other events fall between a handler's awaits.  The        *)
(* events of a run fall within one reading of the clock.                   *)
(***************************************************************************)
AsyncNext ==
  \/ handlePresetChange
  \/ startSession_invoked
  \/ startSession_permission
  \/ startLocationWatch_resolved
  \/ locationSample
  \/ enterPausedState_async
  \/ resumeSession_invoked
  \/ finishSession_invoked
  \/ appendDriveHistory_loaded
  \/ finishSession_appended
  \/ finishSession_cleared
  \/ relaunch
  \/ restoreFromSnapshot_invoked
  \/ restoreFromSnapshot_permission
  \/ discardRestorableSnapshot

AsyncSpec == Init /\ [][AsyncNext]_vars

(***************************************************************************)
(* The fare of a session                                                   *)
(***************************************************************************)
\* the runtime of the session, and the same runtime with both remainders
\* below their range
C1_Runtimes ==
  {fareRuntimeRef,
   [fareRuntimeRef EXCEPT !.distanceRemainderKm = 0 - 2000,
                          !.lowSpeedRemainderSeconds = 0 - 200000]}

C1_DeltaDistanceInputs == {NaN, Fin(0 - 255), Fin(255), Fin(1765)}

C1_DeltaSecondsInputs == {Fin(0), Fin(185000)}

C1_SpeedInputs == {Rat(5, 1), Rat(30, 1)}

\* no call of updateFareBySegment returns a fare below the fare it was given
C1_CallNeverLowersFare ==
  \A p \in AllPresets, rt \in C1_Runtimes, d \in C1_DeltaDistanceInputs,
     s \in C1_DeltaSecondsInputs, v \in C1_SpeedInputs :
       updateFareBySegment(p, rt, d, s, v).fareYen >= rt.fareYen

\* a step inside a session: the session is under way before it and after it
C1_SessionStep == sessionState # "idle" /\ sessionState' # "idle"

\* C1: fareYen never decreases.  Every call of updateFareBySegment, for
\* every preset, runtime and segment, returns a fareYen that is at least the
\* fareYen it was given; and on every step between the start and the end of
\* a session (samples, pause, resume, the timer, time passing) neither the
\* displayed fare nor the fare of the session's runtime decreases.
C1_FareNeverDecreases ==
  [][/\ C1_CallNeverLowersFare
     /\ C1_SessionStep =>
          /\ fareYen' >= fareYen
          /\ fareRuntimeRef'.fareYen >= fareRuntimeRef.fareYen]_vars

\* a session that was charged a step, paused and resumed
C1_Witness ==
  /\ sessionState = "running"
  /\ acceptedSamples > 0
  /\ fareYen > selectedPreset.baseFareYen
  /\ fareYen = fareRuntimeRef.fareYen
  /\ \E i \in DOMAIN sessionEventsRef : sessionEventsRef[i].type = "resume"

(***************************************************************************)
(* The session state machine                                               *)
(***************************************************************************)
\* C11: sessionState changes only along the legal edges, each made by its
\* operation: idle -> running by start with permission granted, running ->
\* paused by pause, paused -> running by resume, running -> idle and paused
\* -> idle by finish, idle -> paused by restore.  (A new process starts
\* idle: that is no transition of the session it replaced.)
C11_LegalEdgesOnly ==
  [][sessionState' # sessionState =>
       \/ /\ sessionState = "idle" /\ sessionState' = "running"
          /\ startSession_permission
       \/ /\ sessionState = "running" /\ sessionState' = "paused"
          /\ enterPausedState
       \/ /\ sessionState = "paused" /\ sessionState' = "running"
          /\ resumeSession_invoked
       \/ /\ sessionState \in {"running", "paused"} /\ sessionState' = "idle"
          /\ finishSession_cleared
       \/ /\ sessionState = "idle" /\ sessionState' = "paused"
          /\ restoreFromSnapshot_permission
       \/ relaunch]_vars

\* C11 when every handler runs to its end before the next event: the same
\* edges, each made by its operation
C11_LegalEdgesOnly_RunToCompletion ==
  [][sessionState' # sessionState =>
       \/ /\ sessionState = "idle" /\ sessionState' = "running"
          /\ startSession
       \/ /\ sessionState = "running" /\ sessionState' = "paused"
          /\ enterPausedState
       \/ /\ sessionState = "paused" /\ sessionState' = "running"
          /\ resumeSession
       \/ /\ sessionState \in {"running", "paused"} /\ sessionState' = "idle"
          /\ finishSession
       \/ /\ sessionState = "idle" /\ sessionState' = "paused"
          /\ restoreFromSnapshot
       \/ relaunch]_vars

\* the state of the session and its data
sessionData ==
  <<sessionState, fareRuntimeRef, elapsedAccumulatedMsRef, acceptedSamples,
    filteredSamples, sessionEventsRef, pauseLogsRef, historyItems,
    historyFile>>

\* C12: an operation invoked in a state where it is illegal is a no-op:
\* start while running or paused, pause while idle or paused, resume while
\* idle or running, finish while idle and restore while running or paused
\* leave sessionState and all session data unchanged.
C12_IllegalTransitionsAreNoOps ==
  /\ sessionState \in {"running", "paused"} =>
       ~ENABLED (startSession_handler /\ sessionData' # sessionData)
  /\ sessionState \in {"idle", "paused"} =>
       ~ENABLED (enterPausedState_handler /\ sessionData' # sessionData)
  /\ sessionState \in {"idle", "running"} =>
       ~ENABLED (resumeSession /\ sessionData' # sessionData)
  /\ sessionState = "idle" =>
       ~ENABLED (finishSession_handler /\ sessionData' # sessionData)
  /\ sessionState \in {"running", "paused"} =>
       ~ENABLED (restoreFromSnapshot_handler /\ sessionData' # sessionData)

\* the part of C12 the handlers do keep: resume while idle or running and
\* finish while idle change nothing
C12_ResumeAndFinishAreGuarded ==
  /\ sessionState \in {"idle", "running"} =>
       ~ENABLED (resumeSession /\ sessionData' # sessionData)
  /\ sessionState = "idle" =>
       ~ENABLED (finishSession_handler /\ sessionData' # sessionData)

\* pause called while the session is already paused would change its data
C12_PauseWhilePausedChanges ==
  /\ sessionState = "paused"
  /\ ENABLED (enterPausedState_handler /\ sessionData' # sessionData)

\* ---------------------------------------------------------------------
\* Samples and the location subscription
\* ---------------------------------------------------------------------

\* what a sample may change
sampleData == <<fareRuntimeRef, distanceKm, acceptedSamples, filteredSamples>>

\* C13: samples are processed only while running: in every reachable state,
\* under every interleaving of start, pause, resume, finish and restore
\* (operations still waiting at an await included), no location
\* subscription is active while sessionState is paused or idle.
C13_NoSubscriptionUnlessRunning ==
  sessionState \in {"idle", "paused"} => LiveSubs = {}

\* C13, second half: no sample changes the fare runtime, the distance or
\* the sample counters while sessionState is paused or idle
C13_NoSampleProcessedUnlessRunning ==
  [][(sessionState \in {"idle", "paused"} /\ locationSample)
       => sampleData' = sampleData]_vars

\* a subscription installed after the pause is live in a paused session
\* whose watchSub.current went through stopLocationWatch as null
C13_SubscriptionWhilePaused ==
  /\ sessionState = "paused"
  /\ LiveSubs # {}
  /\ acceptedSamples + filteredSamples > 0

\* ---------------------------------------------------------------------
\* Elapsed time
\* ---------------------------------------------------------------------

\* the sum of the running segments the events record: each pause closes the
\* segment opened by the start or resume before it
RECURSIVE RunningTime(_)
RunningTime(events) ==
  IF Len(events) < 2 THEN 0
  ELSE LET n == Len(events)
       IN  RunningTime(SubSeq(events, 1, n - 1))
           + (IF events[n].type = "pause"
                 /\ events[n - 1].type \in {"start", "resume"}
              THEN events[n].atMs - events[n - 1].atMs
              ELSE 0)

\* within a session elapsedAccumulatedMs changes only at a pause, by the
\* length of the segment the pause closes
C14_ChangesOnlyAtFinalize ==
  elapsedAccumulatedMsRef' # elapsedAccumulatedMsRef =>
    \/ sessionState = "idle"
    \/ sessionState' = "idle"
    \/ /\ sessionState = "running"
       /\ sessionState' = "paused"
       /\ now >= runningSegmentStartMsRef
       /\ elapsedAccumulatedMsRef' =
            elapsedAccumulatedMsRef + (now - runningSegmentStartMsRef)

\* C14: elapsed time counts running time only: elapsedAccumulatedMs changes
\* only when an open running segment is finalized, and at every pause it
\* equals the sum of the durations of the running segments so far, whatever
\* the length of the pauses in between.
C14_ElapsedCountsRunningTimeOnly ==
  /\ [](sessionState \in {"running", "paused"} =>
          elapsedAccumulatedMsRef = RunningTime(sessionEventsRef))
  /\ [][C14_ChangesOnlyAtFinalize]_vars

\* paused for the second time, after a pause that lasted
C14_Witness ==
  /\ sessionState = "paused"
  /\ PauseCount = 2
  /\ Len(pauseLogsRef) = 1
  /\ pauseLogsRef[1].durationMs > 0
  /\ elapsedAccumulatedMsRef > 0

\* the elapsed time the spec has the display show
ElapsedDisplayExact ==
  /\ sessionState = "running" =>
       elapsedMs = elapsedAccumulatedMsRef + (now - runningSegmentStartMsRef)
  /\ sessionState = "paused" => elapsedMs = elapsedAccumulatedMsRef

\* C15 as stated: at every observation point the displayed elapsedMs equals
\* elapsedAccumulatedMs + (now - runningSegmentStartMs) while running and
\* elapsedAccumulatedMs while paused.
C15_DisplayedElapsedExactAlways == ElapsedDisplayExact

\* C15, amended: the displayed elapsedMs has that value in the state right
\* after the timer callback and right after start, pause, resume and
\* restore; between two timer callbacks of a running session it keeps the
\* value of the last one, which lies between elapsedAccumulatedMs and the
\* exact value, and while paused it equals elapsedAccumulatedMs.
C15_DisplayedElapsedExactWhenUpdated ==
  /\ [](/\ sessionState = "paused" => elapsedMs = elapsedAccumulatedMsRef
        /\ sessionState = "running" =>
             /\ elapsedAccumulatedMsRef <= elapsedMs
             /\ elapsedMs <= elapsedAccumulatedMsRef
                               + (now - runningSegmentStartMsRef))
  /\ [][(elapsedTimer \/ sessionState' # sessionState)
          => ElapsedDisplayExact']_vars

\* the timer callback has brought the display up to date in the second
\* running segment of a session
C15_Witness ==
  /\ sessionState = "running"
  /\ elapsedAccumulatedMsRef > 0
  /\ now > runningSegmentStartMsRef
  /\ elapsedMs = elapsedAccumulatedMsRef + (now - runningSegmentStartMsRef)

\* C16: finish invoked while running first finalizes the open running
\* segment, so the history record that finish appends has elapsedMs equal
\* to the total time the session spent running, the open segment included.
C16_FinishWhileRunningFinalizes ==
  (sessionState = "running" /\ startedAtMs # 0) =>
    ~ENABLED (/\ finishSession_handler
              /\ Head(historyFile').elapsedMs #
                   elapsedAccumulatedMsRef
                     + Max(0, now - runningSegmentStartMsRef))

\* finish invoked while paused, where the segment is already finalized,
\* records the running time
C16_FinishWhilePausedRecordsRunningTime ==
  (sessionState = "paused" /\ startedAtMs # 0) =>
    ~ENABLED (/\ finishSession_handler
              /\ Head(historyFile').elapsedMs #
                   RunningTime(sessionEventsRef))

\* a running session with an open segment of some length, which a finish
\* would leave out of the record
C16_OpenSegmentDropped ==
  /\ sessionState = "running"
  /\ now > runningSegmentStartMsRef
  /\ finishRecord(now).elapsedMs = elapsedAccumulatedMsRef

\* ---------------------------------------------------------------------
\* Finish
\* ---------------------------------------------------------------------

\* what a completed finish of a started session leaves behind
C17_FinishStep ==
  (finishSession /\ startedAtMs # 0) =>
    /\ Len(historyFile') = Len(historyFile) + 1
    /\ Tail(historyFile') = historyFile
    /\ historyItems' = historyFile'
    /\ LET record == Head(historyFile')
       IN  /\ record.fareYen = fareYen
           /\ record.fareYen = fareRuntimeRef.fareYen
           /\ record.distanceKm = distanceKm
           /\ record.elapsedMs = elapsedAccumulatedMsRef
           /\ record.acceptedSamples = acceptedSamples
           /\ record.filteredSamples = filteredSamples
           /\ record.pauseLogs =
                (IF pauseStartedAtRef # 0
                 THEN Append(pauseLogsRef,
                             [pausedAtMs |-> pauseStartedAtRef,
                              resumedAtMs |-> now,
                              durationMs |-> now - pauseStartedAtRef])
                 ELSE pauseLogsRef)
           /\ record.events =
                Append(sessionEventsRef, [type |-> "finish", atMs |-> now])
    /\ snapshotFile' = EmptyFile
    /\ LiveSubs' = {}
    /\ ~timerRef'
    /\ sessionState' = "idle"
    /\ fareYen' = getPresetById(selectedPresetId').baseFareYen
    /\ fareRuntimeRef' = createFareRuntime(getPresetById(selectedPresetId'))
    /\ distanceKm' = 0
    /\ elapsedMs' = 0
    /\ elapsedAccumulatedMsRef' = 0
    /\ acceptedSamples' = 0
    /\ filteredSamples' = 0
    /\ sessionEventsRef' = <<>>
    /\ pauseLogsRef' = <<>>

\* C17: after finish completes on a started session exactly one history
\* record built from the session's final fare, distance, elapsed time,
\* counters, pauseLogs and events has been appended, the persisted snapshot
\* is cleared, the location watch and the elapsed timer are stopped, and
\* the session is idle with the meter reset to the selected preset.
C17_FinishAppendsOneRecordAndResets == [][C17_FinishStep]_vars

\* idle after the finish of a session that ran, was charged and was paused
C17_Witness ==
  /\ sessionState = "idle"
  /\ Len(historyFile) = 1
  /\ historyFile[1].elapsedMs > 0
  /\ historyFile[1].acceptedSamples > 0
  /\ Len(historyFile[1].pauseLogs) > 0
  /\ snapshotFile = EmptyFile
  /\ fareYen = getPresetById(selectedPresetId).baseFareYen

\* ---------------------------------------------------------------------
\* The session snapshot
\* ---------------------------------------------------------------------

\* the values of a snapshot that a restore brings back
SnapshotValues(s) ==
  <<s.fareYen, s.distanceKm, s.fareRuntime, s.acceptedSamples,
    s.filteredSamples, s.from, s.to, s.pauseLogs, s.events>>

\* the same values of the session
SessionValues ==
  <<fareYen, distanceKm, fareRuntimeRef, acceptedSamples, filteredSamples,
    firstAcceptedPointRef, lastAcceptedPointRef, pauseLogsRef,
    sessionEventsRef>>

\* every snapshot written holds the values the session has at that moment
C18_SaveStep ==
  (snapshotFile' # snapshotFile /\ snapshotFile' # EmptyFile) =>
    /\ sessionState' \in {"running", "paused"}
    /\ snapshotFile'.sessionState = sessionState'
    /\ SnapshotValues(snapshotFile') = SessionValues'

\* the next launch offers the snapshot as it was written, if it offers one
C18_LoadStep ==
  (relaunch /\ restorableSnapshot' # Null) =>
    /\ snapshotFile # EmptyFile
    /\ restorableSnapshot' = snapshotFile

\* restore puts the offered snapshot's values into a paused session
C18_RestoreStep ==
  (restoreFromSnapshot /\ sessionState' # "idle") =>
    /\ sessionState' = "paused"
    /\ runningSegmentStartMsRef' = 0
    /\ LiveSubs' = {}
    /\ SessionValues' = SnapshotValues(restorableSnapshot)

\* C18: snapshot round-trip: restoring a snapshot saved from a running or
\* paused session puts the session in paused, never running, with no running
\* segment open and no location watch, and with fareYen, distanceKm, the fare
\* runtime, the sample counters, the first and last accepted points,
\* pauseLogs and events identical to the values the session had when the
\* snapshot was saved.
C18_SnapshotRoundTrip ==
  /\ [][C18_SaveStep]_vars
  /\ [][C18_LoadStep]_vars
  /\ [][C18_RestoreStep]_vars

\* a session restored from a snapshot that was saved while it was running,
\* after a pause and accepted samples
C18_Witness ==
  /\ launches = 1
  /\ sessionState = "paused"
  /\ sessionEventsRef # <<>>
  /\ sessionEventsRef[Len(sessionEventsRef)].type = "resume"
  /\ acceptedSamples > 0
  /\ Len(pauseLogsRef) > 0
  /\ fareRuntimeRef # createFareRuntime(getPresetById(selectedPresetId))

\* the elapsed time of the session at the moment snapshot s was saved: the
\* segments closed by a pause, and for a running session the segment open
\* since the last start or resume
SavedElapsed(s) ==
  RunningTime(s.events)
    + (IF s.sessionState = "running"
       THEN s.savedAtMs - s.events[Len(s.events)].atMs
       ELSE 0)

\* C19: elapsed time is preserved across a process restart: for a snapshot
\* saved while the session is running or paused, the elapsed time of the
\* restored session equals the elapsed time (accumulated plus any open
\* running segment) the session had when the snapshot was saved.
C19_RestoredElapsedIsSavedElapsed ==
  (sessionState = "idle" /\ restorableSnapshot # Null) =>
    ~ENABLED (/\ restoreFromSnapshot
              /\ sessionState' = "paused"
              /\ \/ elapsedAccumulatedMsRef' # SavedElapsed(restorableSnapshot)
                 \/ elapsedMs' # SavedElapsed(restorableSnapshot))

\* the part of C19 that holds: a snapshot saved while paused restores the
\* elapsed time, and one saved while running restores the time accumulated
\* up to the last pause
C19_RestoredElapsedIsAccumulated ==
  (sessionState = "idle" /\ restorableSnapshot # Null) =>
    ~ENABLED (/\ restoreFromSnapshot
              /\ sessionState' = "paused"
              /\ \/ elapsedAccumulatedMsRef'
                      # RunningTime(restorableSnapshot.events)
                 \/ elapsedMs' # RunningTime(restorableSnapshot.events))

\* the launch offers a snapshot saved in the middle of a running segment
C19_SavedWhileRunning ==
  /\ sessionState = "idle"
  /\ restorableSnapshot # Null
  /\ restorableSnapshot.sessionState = "running"
  /\ SavedElapsed(restorableSnapshot) > restorableSnapshot.elapsedMs

\* C20: an interrupted session is restorable: if the process ends while a
\* session is running or paused and a snapshot has been saved, the next
\* startup loads that snapshot and offers it for restore, under every
\* ordering of the startup load and the clear-on-idle effect of the startup.
C20_InterruptedSessionIsOffered ==
  (sessionState \in {"running", "paused"} /\ snapshotFile # EmptyFile) =>
    ~ENABLED (relaunch /\ restorableSnapshot' # snapshotFile)

\* when a snapshot is offered it is the one that was saved
C20_OfferedSnapshotIsTheSavedOne ==
  (sessionState \in {"running", "paused"} /\ snapshotFile # EmptyFile) =>
    ~ENABLED (/\ relaunch
              /\ restorableSnapshot' # Null
              /\ restorableSnapshot' # snapshotFile)

\* C21: the snapshot is cleared when the session reaches idle: once finish
\* has completed and every handler under way has settled, loadSessionSnapshot
\* returns absent, whatever the order of the snapshot saves issued while
\* running or paused and the clears issued by finish and by the idle effect.
C21_SnapshotClearedOnceIdle ==
  (sessionState = "idle" /\ pending = <<>> /\ historyFile # <<>>) =>
    loadSessionSnapshot = Null

\* finish has completed, nothing is under way, and a snapshot is on file
C21_SnapshotLeftAfterFinish ==
  /\ sessionState = "idle"
  /\ pending = <<>>
  /\ historyFile # <<>>
  /\ snapshotFile # EmptyFile

\* ---------------------------------------------------------------------
\* The history log
\* ---------------------------------------------------------------------

\* list after is list before with item put in front, cut to the capacity:
\* the newest first, the earlier ones in their order, the oldest dropped
PrependedAndCapped(after, beforeList, item) ==
  /\ Len(after) = Min(Len(beforeList) + 1, MAX_HISTORY_ITEMS)
  /\ after[1] = item
  /\ \A i \in 2..Len(after) : after[i] = beforeList[i - 1]

C22_AppendStep ==
  AppendRecord =>
    /\ PrependedAndCapped(historyFile', historyFile, call'.item)
    /\ PrependedAndCapped(historyItems', historyItems, call'.item)

\* C22: after any sequence of appendDriveHistory calls the persisted
\* history has at most 100 entries and is ordered newest-first, the most
\* recently appended item first and the earlier ones in their order; when
\* over capacity the oldest entries are dropped; the list in memory obeys
\* the same bound and order.
C22_HistoryBoundedNewestFirst ==
  /\ [](calls > 0 =>
          /\ Len(historyFile) <= 100
          /\ Len(historyItems) <= 100
          /\ historyItems = historyFile
          /\ \A i \in 1..(Len(historyFile) - 1) :
               historyFile[i].id > historyFile[i + 1].id)
  /\ [][C22_AppendStep]_vars

\* a full history after appends that pushed its oldest records out
C22_Witness ==
  /\ calls = MaxAppends
  /\ Len(historyFile) = 100
  /\ historyFile[1].id = 1000 + MaxAppends
  /\ historyFile[100].id > 1

\* C23: the history record of a finished session carries the cumulative
\* step counts: distanceChargeSteps and timeChargeSteps are the numbers of
\* distance steps and low-speed time steps charged, so that the record's
\* fareYen is the base fare plus the charges of those steps.
C23_RecordCarriesStepCounts ==
  \A i \in DOMAIN historyFile :
    LET record == historyFile[i]
        p == getPresetById(record.presetId)
    IN  /\ IsFinite(record.distanceChargeSteps)
        /\ IsFinite(record.timeChargeSteps)
        /\ record.fareYen =
             p.baseFareYen
               + record.distanceChargeSteps.val * p.distanceStepFareYen
               + record.timeChargeSteps.val * p.lowSpeedStepFareYen

\* the record of a session that was charged above the base fare has no
\* step counts
C23_ChargedRecordWithoutCounts ==
  /\ historyFile # <<>>
  /\ historyFile[1].fareYen > getPresetById(historyFile[1].presetId).baseFareYen
  /\ historyFile[1].distanceChargeSteps = Undefined
  /\ historyFile[1].timeChargeSteps = Undefined

\* ---------------------------------------------------------------------
\* The fare preset
\* ---------------------------------------------------------------------

\* a preset change that takes effect sets the preset and resets the meter
C24_PresetChangeStep ==
  handlePresetChange =>
    /\ sessionState = "idle"
    /\ sessionState' = "idle"
    /\ fareRuntimeRef' = createFareRuntime(getPresetById(selectedPresetId'))
    /\ fareYen' = getPresetById(selectedPresetId').baseFareYen
    /\ distanceKm' = 0
    /\ elapsedMs' = 0
    /\ acceptedSamples' = 0
    /\ filteredSamples' = 0

\* the selected preset stays as it is from one state of a session to the next
C24_SelectedPresetKeptInSession ==
  (sessionState # "idle" /\ sessionState' # "idle") =>
    selectedPresetId' = selectedPresetId

\* C24, its last part: the preset used to charge samples never changes
\* during a session: every subscription of a session charges with the
\* preset selected for it, the one its snapshot and its record name.
C24_SamplesChargedWithSelectedPreset ==
  sessionState # "idle" =>
    \A sub \in LiveSubs : sub.preset.id = selectedPresetId

\* C24 as a whole: a preset change takes effect only while idle: handlePresetChange
\* invoked while running or paused leaves selectedPresetId and the fare
\* runtime unchanged; invoked while idle it sets the selected preset and
\* resets the meter to createFareRuntime(new preset) and the new preset's
\* base fare; the preset used to charge samples never changes during a
\* session.
C24_PresetChangesOnlyWhileIdle ==
  /\ [](sessionState \in {"running", "paused"} =>
          ~ENABLED (/\ handlePresetChange
                    /\ <<selectedPresetId, fareRuntimeRef>>'
                         # <<selectedPresetId, fareRuntimeRef>>))
  /\ [][C24_PresetChangeStep]_vars
  /\ [][C24_SelectedPresetKeptInSession]_vars
  /\ []C24_SamplesChargedWithSelectedPreset

\* a sample has been charged with a preset other than the selected one
C24_ChargedWithOtherPreset ==
  /\ sessionState = "running"
  /\ acceptedSamples > 0
  /\ \E sub \in LiveSubs : sub.preset.id # selectedPresetId
  /\ fareRuntimeRef.fareYen < getPresetById(selectedPresetId).baseFareYen

\* ---------------------------------------------------------------------
\* Permission
\* ---------------------------------------------------------------------

\* C25, its first part: when permission is denied, start and restore leave
\* the session idle, set an error message, reset no counter, record no
\* event and start no watch and no timer
C25_DenialStep ==
  ((startSession \/ restoreFromSnapshot) /\ permission' = "denied") =>
    /\ sessionState' = "idle"
    /\ errorMessage' # ""
    /\ <<fareRuntimeRef, distanceKm, elapsedMs, acceptedSamples,
         filteredSamples, sessionEventsRef, pauseLogsRef>>'
         = <<fareRuntimeRef, distanceKm, elapsedMs, acceptedSamples,
             filteredSamples, sessionEventsRef, pauseLogsRef>>
    /\ restorableSnapshot' = restorableSnapshot
    /\ LiveSubs' = {}
    /\ ~timerRef'

C25_DenialLeavesSessionUntouched == [][C25_DenialStep]_vars

\* C25: permission denial is a recoverable status: after a denial the
\* session is idle, and a later start attempt, made when permission can be
\* granted, can still start a session.
C25_StartPossibleAfterDenial ==
  (sessionState = "idle" /\ permission = "denied" /\ started < MaxSessions)
    => ENABLED (startSession /\ sessionState' = "running")

\* idle after a denied start, nothing to restore: the start button is off
C25_StartButtonOffAfterDenial ==
  /\ sessionState = "idle"
  /\ permission = "denied"
  /\ restorableSnapshot = Null
  /\ launches = 0
  /\ ~ENABLED startSession
  /\ ENABLED (startSession_handler /\ sessionState' = "running")

\* ---------------------------------------------------------------------
\* Failing writes
\* ---------------------------------------------------------------------

\* with failing writes start still reaches running, pause paused and
\* resume running
C26_StartPauseResumeStep ==
  writesFail =>
    /\ (startSession /\ permission' = "granted") =>
         (sessionState' = "running" /\ timerRef' /\ LiveSubs' # {})
    /\ enterPausedState =>
         (sessionState' = "paused" /\ ~timerRef' /\ LiveSubs' = {})
    /\ resumeSession =>
         (sessionState' = "running" /\ timerRef' /\ LiveSubs' # {})

C26_StartPauseResumeNotBlocked == [][C26_StartPauseResumeStep]_vars

\* with failing writes finish still stops the watch and the timer, resets
\* the meter and reaches idle
C26_FinishStep ==
  (writesFail /\ finishSession) =>
    /\ sessionState' = "idle"
    /\ LiveSubs' = {}
    /\ ~timerRef'
    /\ fareRuntimeRef' = createFareRuntime(getPresetById(selectedPresetId'))
    /\ sessionEventsRef' = <<>>

\* C26: persistence failures never block the session state machine: if
\* saveSessionSnapshot, appendDriveHistory or clearSessionSnapshot fails,
\* start still reaches running, pause paused, resume running, and finish
\* still stops the watch and the timer, resets the meter and reaches idle.
C26_WritesNeverBlockTheSession ==
  [][C26_StartPauseResumeStep /\ C26_FinishStep]_vars

\* a finish whose write was rejected has left the session paused, with its
\* finish event recorded and no record in the history
C26_FinishBlocked ==
  /\ writesFail
  /\ sessionState = "paused"
  /\ FinishCount > 0
  /\ historyFile = <<>>
  /\ startedAtMs # 0

\* ---------------------------------------------------------------------
\* Loading stored data
\* ---------------------------------------------------------------------

\* the file holds a history, resp. a snapshot
HoldsHistory(file) ==
  /\ file.kind = "json"
  /\ file.value.type = "array"
  /\ \A i \in DOMAIN file.value.items :
       IsDriveHistoryItem(file.value.items[i])

HoldsSnapshot(file) ==
  /\ file.kind = "json"
  /\ file.value.type = "object"
  /\ IsSessionSnapshot(file.value.fields)

\* C27: loading tolerates bad stored data: for a file that is missing,
\* empty, not valid JSON or valid JSON of the wrong shape, loadDriveHistory
\* returns an empty list and loadSessionSnapshot returns absent; after
\* clearSessionSnapshot, loadSessionSnapshot returns absent.
C27_BadDataLoadsAsAbsent ==
  /\ (loaded.kind = "history" /\ ~HoldsHistory(storedFiles.history))
       => loaded.result = <<>>
  /\ (loaded.kind = "snapshot" /\ ~HoldsSnapshot(storedFiles.snapshot))
       => loaded.result = Null

\* the part of C27 that holds: a file that is missing, empty or not valid
\* JSON, a value that is not an array for the history, and a value that is
\* neither an object nor an array for the snapshot all load as absent
C27_UnparsableLoadsAsAbsent ==
  /\ (loaded.kind = "history"
        /\ (storedFiles.history.kind # "json"
              \/ storedFiles.history.value.type # "array"))
       => loaded.result = <<>>
  /\ (loaded.kind = "snapshot"
        /\ (storedFiles.snapshot.kind # "json"
              \/ storedFiles.snapshot.value.type \notin {"object", "array"}))
       => loaded.result = Null
  /\ (loaded.kind = "snapshot" /\ storedFiles.snapshot = TextFile(""))
       => loaded.result = Null

\* a JSON object that is no snapshot has been loaded as the snapshot
C27_WrongShapeLoaded ==
  /\ loaded.kind = "snapshot"
  /\ storedFiles.snapshot = JsonFile(JsonObject([foo |-> 1]))
  /\ loaded.result = JsonObject([foo |-> 1])

\* ---------------------------------------------------------------------
\* formatDuration
\* ---------------------------------------------------------------------

DigitValue(c) ==
  CASE c = "0" -> 0 [] c = "1" -> 1 [] c = "2" -> 2 [] c = "3" -> 3
    [] c = "4" -> 4 [] c = "5" -> 5 [] c = "6" -> 6 [] c = "7" -> 7
    [] c = "8" -> 8 [] c = "9" -> 9 [] OTHER -> -1

IsDigits(text) ==
  \A i \in 1..Len(text) : DigitValue(SubSeq(text, i, i)) >= 0

\* the number a text of digits denotes
RECURSIVE ParseNat(_)
ParseNat(text) ==
  IF text = "" THEN 0
  ELSE ParseNat(SubSeq(text, 1, Len(text) - 1)) * 10
         + DigitValue(SubSeq(text, Len(text), Len(text)))

\* C28: formatDuration(ms) floors ms to whole seconds, clamps negative input
\* to 0 and returns hours:minutes:seconds, each field zero-padded to at
\* least width 2, minutes and seconds always in 0..59; formatDuration(-5) is
\* "00:00:00" and formatDuration(3661000) is "01:01:01".
C28_FormatDuration ==
  formatCall # NoCall =>
    LET ms == formatCall.ms
        wholeSeconds == IF ms < 0 THEN 0 ELSE ms \div 1000
        n  == Len(formatted)
        hh == SubSeq(formatted, 1, n - 6)
        mm == SubSeq(formatted, n - 4, n - 3)
        ss == SubSeq(formatted, n - 1, n)
    IN  /\ n >= 8
        /\ SubSeq(formatted, n - 5, n - 5) = ":"
        /\ SubSeq(formatted, n - 2, n - 2) = ":"
        /\ IsDigits(hh) /\ IsDigits(mm) /\ IsDigits(ss)
        /\ Len(hh) > 2 => SubSeq(hh, 1, 1) # "0"
        /\ ParseNat(mm) \in 0..59
        /\ ParseNat(ss) \in 0..59
        /\ ParseNat(hh) * 3600 + ParseNat(mm) * 60 + ParseNat(ss)
             = wholeSeconds
        /\ ms = -5 => formatted = "00:00:00"
        /\ ms = 3661000 => formatted = "01:01:01"

\* formatDuration(3661000) has been called and has returned "01:01:01"
C28_Witness ==
  /\ formatCall # NoCall
  /\ formatCall.ms = 3661000
  /\ formatted = "01:01:01"

\* ---------------------------------------------------------------------
\* The first sample of a running segment
\* ---------------------------------------------------------------------

\* what a sample that only establishes the baseline leaves alone
baselineFrame ==
  <<fareRuntimeRef, fareYen, distanceKm, acceptedSamples, filteredSamples,
    firstAcceptedPointRef, lastAcceptedPointRef>>

\* start and resume leave no last point and no last time behind
C29_StartAndResumeClearBaseline ==
  [][(startSession \/ resumeSession)
       => (lastPoint' = Null /\ lastSampleTimeMs' = 0)]_vars

\* nothing but a sample sets the last point
C29_OnlySamplesSetLastPoint ==
  [][(lastPoint' # lastPoint /\ lastPoint' # Null) => locationSample]_vars

\* a sample that finds no last point stores its point and time and changes
\* nothing else of the meter
C29_FirstSampleStep ==
  [][(locationSample /\ lastPoint = Null)
       => /\ lastPoint' # Null
          /\ lastSampleTimeMs' = now
          /\ baselineFrame' = baselineFrame]_vars

\* while running, the last point is never older than the running segment
C29_NoBaselineFromBeforeThePause ==
  (sessionState = "running" /\ lastPoint # Null)
    => lastSampleTimeMs >= runningSegmentStartMsRef

\* C29: the first sample after start and the first sample after every
\* resume (and after restore + resume) only establishes the baseline: it
\* sets the last point and time and changes neither the fare runtime,
\* distanceKm, acceptedSamples, filteredSamples nor the first/last accepted
\* points, so no delta is ever computed across a pause gap.
C29_FirstSampleOnlyBaselines ==
  /\ C29_StartAndResumeClearBaseline
  /\ C29_OnlySamplesSetLastPoint
  /\ C29_FirstSampleStep
  /\ []C29_NoBaselineFromBeforeThePause

\* after a sample, a later pause and a resume, the first sample of the new
\* segment has been taken as the baseline only
C29_Witness ==
  /\ sessionState = "running"
  /\ Len(pauseLogsRef) > 0
  /\ lastPoint # Null
  /\ lastSampleTimeMs > pauseLogsRef[Len(pauseLogsRef)].pausedAtMs
  /\ delivered = 2
  /\ acceptedSamples = 0
  /\ filteredSamples = 0

\* ---------------------------------------------------------------------
\* Rejected samples
\* ---------------------------------------------------------------------

\* what a rejected sample leaves alone
rejectedFrame ==
  <<fareRuntimeRef, fareYen, distanceKm, acceptedSamples,
    firstAcceptedPointRef, lastAcceptedPointRef>>

\* a step of the location callback that had a last point to compare with
\* and did not accept the sample, or that counted the sample as filtered
rejectedSample ==
  /\ locationSample
  /\ \/ /\ lastPoint # Null
        /\ lastSampleTimeMs # 0
        /\ acceptedSamples' = acceptedSamples
     \/ filteredSamples' # filteredSamples

\* C30: a rejected sample increments filteredSamples by exactly 1, sets
\* displayed speed and billing mode to unknown, and updates last point/time
\* to the rejected sample, while leaving the fare runtime, fareYen,
\* distanceKm, acceptedSamples and the first/last accepted points unchanged.
C30_RejectedSampleStep ==
  [][rejectedSample
       => /\ filteredSamples' = filteredSamples + 1
          /\ speedKmh' = Null
          /\ billingMode' = "unknown"
          /\ lastPoint' \in {LatLng(lat) : lat \in Positions}
          /\ lastSampleTimeMs' = now
          /\ rejectedFrame' = rejectedFrame]_vars

\* a jump of 2000 m has been rejected: it is the last point, but not an
\* accepted one, and the fare is still the base fare
C30_Witness ==
  /\ sessionState = "running"
  /\ filteredSamples = 1
  /\ acceptedSamples = 0
  /\ lastPoint = LatLng(2000)
  /\ lastSampleTimeMs = now
  /\ lastAcceptedPointRef = Null
  /\ speedKmh = Null
  /\ billingMode = "unknown"
  /\ distanceKm = 0
  /\ fareYen = selectedPreset.baseFareYen

\* ---------------------------------------------------------------------
\* Accepted samples
\* ---------------------------------------------------------------------

\* a step of the location callback that counted the sample as accepted
acceptedSample == locationSample /\ acceptedSamples' # acceptedSamples

sampleSpeed(mps, deltaKm, deltaSeconds) ==
  IF mps # Null /\ mps.val > 0
  THEN Rat(mps.val * 36, 10)
  ELSE Rat(deltaKm * 3600, deltaSeconds)

\* C32: the speed given to both the classifier and the fare engine for a
\* sample is the sensor-reported speed times 3.6 when that is positive, and
\* otherwise (reported speed missing, zero or negative) the derived speed
\* deltaKm / deltaSeconds * 3600; the same speed value decides rejection and
\* the billing mode of that sample.
C32_OneSpeedPerSample ==
  [][\A sub \in LiveSubs, lat \in Positions, mps \in SpeedReports,
        accuracy \in AccuracyReports :
       (/\ delivered' = delivered + 1
        /\ lastPoint # Null /\ lastSampleTimeMs # 0
        /\ locationCallback(sub, lat, mps, accuracy, now))
         => LET deltaKm == distanceKmBetween(lastPoint, LatLng(lat))
                deltaSeconds == Max(100, now - lastSampleTimeMs)
                speed == sampleSpeed(mps, deltaKm, deltaSeconds)
                rejected ==
                  getNoisySampleReason(Fin(deltaKm), Fin(deltaSeconds),
                                       speed, accuracy) # "null"
            IN  /\ rejected <=> filteredSamples' = filteredSamples + 1
                /\ ~rejected <=> acceptedSamples' = acceptedSamples + 1
                /\ ~rejected =>
                     /\ speedKmh' = speed
                     /\ fareRuntimeRef' =
                          updateFareBySegment(sub.preset, fareRuntimeRef,
                                              Fin(deltaKm), Fin(deltaSeconds),
                                              speed)
                     /\ (billingMode' = "time")
                          <=> SpeedLE(speed, sub.preset.lowSpeedThresholdKmh)
      ]_vars

\* a sample with a reported speed of 2 m/s has been accepted at 7.2 km/h
\* after a move whose derived speed is 28.8 km/h
C32_ReportedSpeedUsed ==
  /\ acceptedSamples = 1
  /\ distanceKm = 40
  /\ speedKmh = Rat(72, 10)
  /\ billingMode = "time"

\* a sample without a usable reported speed has been accepted at the derived
\* speed of 28.8 km/h
C32_DerivedSpeedUsed ==
  /\ acceptedSamples = 1
  /\ distanceKm = 40
  /\ speedKmh = Rat(40 * 3600, 5000)
  /\ billingMode = "distance"

\* ---------------------------------------------------------------------
\* Pause logs
\* ---------------------------------------------------------------------

\* the entry that closes at atMs a paused interval on top of the logs given
closesPause(logsAfter, logsBefore, events, atMs) ==
  /\ Len(logsAfter) = Len(logsBefore) + 1
  /\ SubSeq(logsAfter, 1, Len(logsBefore)) = logsBefore
  /\ LET entry == logsAfter[Len(logsAfter)]
     IN  /\ entry.resumedAtMs = atMs
         /\ entry.durationMs = entry.resumedAtMs - entry.pausedAtMs
         /\ entry.pausedAtMs <= atMs
         /\ (events # <<>> /\ events[Len(events)].type = "pause")
              => entry.pausedAtMs = events[Len(events)].atMs

\* what a resume and a finish from paused do to the pause logs
C33_PauseLoggedStep ==
  /\ resumeSession
       => closesPause(pauseLogsRef', pauseLogsRef, sessionEventsRef, now)
  /\ (finishSession /\ startedAtMs # 0)
       => closesPause(Head(historyFile').pauseLogs, pauseLogsRef,
                      sessionEventsRef, now)

\* C33: every paused interval is logged exactly once: each resume from
\* paused, and each finish from paused, appends one pauseLogs entry with
\* pausedAtMs = the time the session entered paused, resumedAtMs = the time
\* of that resume/finish and durationMs = resumedAtMs - pausedAtMs, so at
\* finish the number of pauseLogs entries equals the number of times the
\* session was in the paused state (including a paused state entered by
\* restore).
C33_EveryPausedIntervalLogged == [][C33_PauseLoggedStep]_vars

\* the part of C33 that holds: a paused state entered by the pause button
\* of this launch is logged at the resume or finish that ends it, and only
\* a restored session is paused without an open interval
C33_PauseOfThisLaunchLogged ==
  /\ [][pauseStartedAtRef # 0 => C33_PauseLoggedStep]_vars
  /\ [](sessionState = "paused" /\ pauseStartedAtRef = 0 => launches > 0)

\* a session that was paused, restored after a relaunch and finished from
\* the restored paused state is in the history without any pause log
C33_RestoredPauseNotLogged ==
  /\ historyItems # <<>>
  /\ Head(historyItems).pauseLogs = <<>>
  /\ \E i \in DOMAIN Head(historyItems).events :
       Head(historyItems).events[i].type = "pause"

\* ---------------------------------------------------------------------
\* Samples that are not later than the previous one
\* ---------------------------------------------------------------------

\* a step of the location callback on a sample whose timestamp is not later
\* than the timestamp of the previous sample
sampleNotLater ==
  /\ locationSample
  /\ lastPoint # Null
  /\ lastSampleTimeMs # 0
  /\ lastSampleTimeMs' <= lastSampleTimeMs

\* C34: while running, a sample whose timestamp is not later than the
\* previous sample's timestamp (deltaSeconds <= 0) is rejected as
\* invalid_delta: filteredSamples increments and fare, distanceKm and
\* acceptedSamples do not change.
C34_NotLaterSampleRejected ==
  [][(sampleNotLater /\ sessionState = "running")
       => /\ filteredSamples' = filteredSamples + 1
          /\ fareRuntimeRef' = fareRuntimeRef
          /\ fareYen' = fareYen
          /\ distanceKm' = distanceKm
          /\ acceptedSamples' = acceptedSamples]_vars

\* what the code does with such a sample: it gives it 0.1 seconds, so the
\* sample is rejected only for its speed, its distance or its accuracy,
\* and is accepted when the position did not move
C34_NotLaterSampleGetsTenthOfSecond ==
  [][(sampleNotLater /\ sessionState = "running")
       => \/ filteredSamples' = filteredSamples + 1
               /\ lastPoint' # lastPoint
               /\ fareRuntimeRef' = fareRuntimeRef
          \/ /\ acceptedSamples' = acceptedSamples + 1
             /\ fareRuntimeRef'.lowSpeedRemainderSeconds
                  = fareRuntimeRef.lowSpeedRemainderSeconds + 100]_vars

\* a sample with the timestamp of the sample before it has been accepted
C34_NotLaterSampleAccepted ==
  /\ sessionState = "running"
  /\ acceptedSamples = 1
  /\ filteredSamples = 0
  /\ lastSampleTimeMs = startedAtMs
  /\ fareRuntimeRef.lowSpeedRemainderSeconds > 0

\* ---------------------------------------------------------------------
\* One subscription at a time
\* ---------------------------------------------------------------------

\* C35: at most one location subscription delivers samples at any time, so
\* every arriving sample is applied to the session at most once; this holds
\* under every interleaving of start and resume invocations, including a
\* second start or resume invoked while an earlier one is still awaiting
\* permission or the subscription.
C35_AtMostOneSubscription == Cardinality(LiveSubs) <= 1

\* the subscription of start and the subscription of resume both deliver
\* to the running session
C35_TwoSubscriptions ==
  /\ sessionState = "running"
  /\ watchSub # Null
  /\ leakedSubs # {}
  /\ watchSub \notin leakedSubs
  /\ pending = <<>>

\* ---------------------------------------------------------------------
\* The displayed fare
\* ---------------------------------------------------------------------

\* C36: the displayed fareYen equals fareRuntime.fareYen in every reachable
\* state: after reset, preset change, start, every accepted or rejected
\* sample, pause, resume, restore and finish.
C36_DisplayedFareIsRuntimeFare == fareYen = fareRuntimeRef.fareYen

\* a restored session displays a fare that is not the fare of its runtime
C36_RestoredFareDiffers ==
  /\ sessionState = "paused"
  /\ launches > 0
  /\ startedAtMs # 0
  /\ fareYen # fareRuntimeRef.fareYen

\* ---------------------------------------------------------------------
\* The event log
\* ---------------------------------------------------------------------

\* the events of a session that has not finished: one start event first,
\* then pause, resume, pause, ... in turn, at times that do not decrease
WellFormedOpenLog(events) ==
  /\ events # <<>>
  /\ events[1].type = "start"
  /\ \A i \in 2..Len(events) :
       events[i].type = (IF i % 2 = 0 THEN "pause" ELSE "resume")
  /\ \A i \in 1..(Len(events) - 1) : events[i].atMs <= events[i + 1].atMs

\* the events of a history record: those of a session, then one finish event
WellFormedRecordLog(events) ==
  /\ Len(events) >= 2
  /\ events[Len(events)].type = "finish"
  /\ WellFormedOpenLog(SubSeq(events, 1, Len(events) - 1))
  /\ events[Len(events) - 1].atMs <= events[Len(events)].atMs

\* C37: the event log of every session is well-formed: it starts with
\* exactly one start event, pause and resume events strictly alternate
\* beginning with pause, event times are non-decreasing under a
\* non-decreasing clock, and the log in the history record ends with exactly
\* one finish event; this holds for sessions that were restored from a
\* snapshot as well.
C37_EventLogWellFormed ==
  /\ sessionState # "idle" => WellFormedOpenLog(sessionEventsRef)
  /\ \A i \in DOMAIN historyFile : WellFormedRecordLog(historyFile[i].events)

\* the part of C37 that holds: the log of a session that was not restored
C37_EventLogWellFormedUnlessRestored ==
  launches = 0 => C37_EventLogWellFormed

\* a session restored from a snapshot taken while running has been resumed:
\* its log has a resume event right after the start event
C37_ResumeWithoutPause ==
  /\ sessionState = "running"
  /\ launches > 0
  /\ Len(sessionEventsRef) = 2
  /\ sessionEventsRef[1].type = "start"
  /\ sessionEventsRef[2].type = "resume"

\* ---------------------------------------------------------------------
\* One history record per session
\* ---------------------------------------------------------------------

\* C38: each started session produces exactly one history record: under
\* every interleaving, including finish invoked again (or resume invoked)
\* while an earlier finish is still awaiting the history append or the
\* snapshot clear, a session is appended to the history at most once and no
\* appended record is lost by overlapping read-modify-write appends.
C38_OneRecordPerSession ==
  /\ Len(historyItems) <= started
  /\ Len(historyFile) <= started
  /\ Len(historyFile) >= Len(historyItems)

\* the one session started has been appended twice, and the file holds only
\* one of the two records
C38_AppendedTwiceOneLost ==
  /\ started = 1
  /\ pending = <<>>
  /\ Len(historyItems) = 2
  /\ Len(historyFile) = 1
  /\ historyItems[1].startedAtMs = historyItems[2].startedAtMs

\* the one session started has been appended twice, and the file holds both
\* records
C38_AppendedTwice ==
  /\ started = 1
  /\ pending = <<>>
  /\ Len(historyFile) = 2
  /\ historyFile[1].startedAtMs = historyFile[2].startedAtMs

\* ---------------------------------------------------------------------
\* Sample accounting
\* ---------------------------------------------------------------------

sampleCounters == <<acceptedSamples, filteredSamples>>

ResumeCount ==
  Cardinality({i \in DOMAIN sessionEventsRef :
                 sessionEventsRef[i].type = "resume"})

\* a sample delivered while running with a last point to compare with
\* increments exactly one of the two counters; a baseline sample and a sample
\* delivered while not running increment none
C39_SampleStep ==
  locationSample =>
    IF sessionState = "running" /\ lastPoint # Null /\ lastSampleTimeMs # 0
    THEN \/ /\ acceptedSamples' = acceptedSamples + 1
            /\ filteredSamples' = filteredSamples
         \/ /\ acceptedSamples' = acceptedSamples
            /\ filteredSamples' = filteredSamples + 1
    ELSE sampleCounters' = sampleCounters

\* nothing else counts: any other step leaves the counters or resets them
C39_OtherStep ==
  ~locationSample =>
    \/ sampleCounters' = sampleCounters
    \/ sampleCounters' = <<0, 0>>

\* the counted samples are the delivered ones but for the baselines, of
\* which there is at most one per running segment
C39_CountedWithinDelivered ==
  (launches = 0 /\ sessionState # "idle") =>
    /\ acceptedSamples + filteredSamples <= delivered
    /\ acceptedSamples + filteredSamples >= delivered - (1 + ResumeCount)
    /\ (lastPoint # Null /\ sessionState = "running")
         => acceptedSamples + filteredSamples < delivered

\* C39: sample accounting is exact: at every point of a session that was not
\* restored, acceptedSamples + filteredSamples equals the number of samples
\* delivered while running minus the number of baseline samples (at most one
\* after start and one after each resume), and each delivered non-baseline
\* sample increments exactly one of the two counters.
C39_SampleAccountingExact ==
  /\ [][launches = 0 => (C39_SampleStep /\ C39_OtherStep)]_vars
  /\ []C39_CountedWithinDelivered

\* a sample delivered while paused has been counted: the subscription was
\* stored only after the pause, and nothing was delivered before
C39_CountedWhilePaused ==
  /\ sessionState = "paused"
  /\ launches = 0
  /\ pending = <<>>
  /\ watchSub # Null
  /\ leakedSubs = {}
  /\ ResumeCount = 0
  /\ delivered = 2
  /\ acceptedSamples + filteredSamples = 1

====
